---- MODULE Spec2Model ----
(***************************************************************************)
(* Model of the redaction rule engine of apps/python-semantic/redact.py:   *)
(* generate_rule_actions (the document walker with action ordering),       *)
(* slide_in_scope (the scope resolver) and apply_text_action (the match    *)
(* engine).                                                                *)
(*                                                                         *)
(* Text is a sequence of one-character strings.  Regular expressions are   *)
(* modelled on the fragment: literal characters, "." (any character) and   *)
(* "(" (an unterminated group, which does not compile), and on the one     *)
(* pattern the program itself writes, the amount pattern of                *)
(* interpret_instructions.  Replacement templates are modelled with the    *)
(* backslash rules of re.sub.                                              *)
(***************************************************************************)
EXTENDS Integers, Sequences, FiniteSets, TLC

VARIABLES
    deck,          \* the deck handed to generate_rule_actions
    actions,       \* the caller's action list
    pc,            \* position in generate_rule_actions
    ordered,       \* ordered_actions, as indices into actions
    si, ei, pi, ai,\* loop cursors: slide, element, paragraph, ordered action
    slide_no,      \* int(slide_index) + 1 of the current slide
    new_text,      \* running text of the current paragraph
    changed,       \* changed flag of the current paragraph
    applied_meta,  \* applied_action_metadata of the current paragraph
    results,       \* the results list under construction
    evalLog,       \* per paragraph: the actions handed to apply_text_action, in order
    visited,       \* every paragraph evaluated so far, with its final text
    run,           \* 1 for the first call, 2 for a repeated call
    variant,       \* how the repeated call was set up
    first,         \* outcome, deck and action list of the first call
    scopeArg,      \* slide_in_scope called on its own: the scope argument
    slideArg,      \* ... the slide_no argument
    scopeResult,   \* ... the value returned ("unset" before the call)
    applyText,     \* apply_text_action called on its own: the text argument
    applyAction,   \* ... the action argument
    applyResult,   \* ... the outcome (text, changed; raised for an exception)
    samples,       \* extract_deck_samples: the samples list
    paragraph_lookup,  \* ... the paragraph lookup, in insertion order
    paragraph_counter, \* ... the next value of itertools.count(1)
    sampled_indices,   \* ... the list random.sample returned
    xi,            \* ... the loop index
    summarized,    \* ... the positions handed to _extract_slide_summary, in order
    llm_result,    \* convert_llm_response_to_actions: the classifier's response
    converted,     \* ... the actions list under construction
    ci,            \* ... the index of the next item of the current list
    convLog,       \* ... per item handled: its list, index and whether it gave an action
    instructions,  \* process_redaction: the instruction string of the request
    deck_id,       \* ... the deck id of the request
    client_ok,     \* ... whether get_openai_client() can hand out a client
    meta,          \* ... the meta of the response under construction
    title,         \* ... the rule title
    rule_id,       \* ... the id insert_rule returned ("" before)
    persisted,     \* ... the calls made to the persistence layer, in order
    inserted_rows, \* ... the count insert_rule_actions returned
    response       \* ... the value returned

vars == << deck, actions, pc, ordered, si, ei, pi, ai, slide_no, new_text,
           changed, applied_meta, results, evalLog, visited, run, variant, first,
           scopeArg, slideArg, scopeResult, applyText, applyAction, applyResult,
           samples, paragraph_lookup, paragraph_counter, sampled_indices, xi,
           summarized, llm_result, converted, ci, convLog, instructions, deck_id,
           client_ok, meta, title, rule_id, persisted, inserted_rows, response >>

WalkerVars  == << deck, actions, ordered, si, ei, pi, ai, slide_no, new_text, changed,
                 applied_meta, results, evalLog, visited, run, variant, first >>
ScopeVars   == << scopeArg, slideArg, scopeResult >>
ApplyVars   == << applyText, applyAction, applyResult >>
ExtractVars == << samples, paragraph_lookup, paragraph_counter, sampled_indices, xi,
                 summarized >>
ConvertVars == << llm_result, converted, ci, convLog >>
ProcessVars == << instructions, deck_id, client_ok, meta, title, rule_id, persisted,
                 inserted_rows, response >>

-----------------------------------------------------------------------------
(* Bounds of the model *)

MaxActions == 2

\* slide_in_scope on its own: longest slide list, largest slide number
MaxListLen == 2
MaxSlideNo == 3

-----------------------------------------------------------------------------
(* Strings *)

REDACTED == << "[", "R", "E", "D", "A", "C", "T", "E", "D", "]" >>

\* the letters of the model's alphabet that are no escape of a re.sub template
\* (a, b, f, n, r, t, v and g are)
BadEscapeLetters == { "A", "C", "D", "E", "R", "T", "X", "Y", "c", "d", "e", "x", "y" }

\* str.lower() on one character
LowerChar(c) ==
    CASE c = "A" -> "a" [] c = "C" -> "c" [] c = "D" -> "d" [] c = "E" -> "e"
      [] c = "R" -> "r" [] c = "T" -> "t" [] c = "X" -> "x" [] c = "Y" -> "y"
      [] OTHER -> c

RECURSIVE LStrip(_)
LStrip(s) == IF s # << >> /\ Head(s) = " " THEN LStrip(Tail(s)) ELSE s

RECURSIVE RStrip(_)
RStrip(s) ==
    IF s # << >> /\ s[Len(s)] = " " THEN RStrip(SubSeq(s, 1, Len(s) - 1)) ELSE s

\* str.strip()
Strip(s) == RStrip(LStrip(s))

Range(s) == { s[i] : i \in DOMAIN s }

-----------------------------------------------------------------------------
(* Values that int() is applied to: slide indices and scope entries.       *)
(*   t = "int"   an integer v                                              *)
(*   t = "str"   a string of digits spelling v                             *)
(*   t = "float" a float, v in tenths (25 is 2.5)                          *)
(*   t = "bad"   a string that is no integer literal (ValueError)          *)
(*   t = "none"  None or an absent key (TypeError)                         *)

IntV(n)   == [t |-> "int", v |-> n]
StrV(n)   == [t |-> "str", v |-> n]
FloatV(n) == [t |-> "float", v |-> n]
BadV      == [t |-> "bad", v |-> 0]
NoneV     == [t |-> "none", v |-> 0]

\* int(value) succeeds
CoerceOK(e) == e.t \in { "int", "str", "float" }

\* int(value)
Coerce(e) == IF e.t = "float" THEN e.v \div 10 ELSE e.v

-----------------------------------------------------------------------------
(* slide_in_scope *)

\* mutant: the first entry that does not coerce ends the loop
RECURSIVE NormalizedStopAtBad(_)
NormalizedStopAtBad(list) ==
    IF list = << >> THEN << >>
    ELSE IF CoerceOK(Head(list))
    THEN << Coerce(Head(list)) >> \o NormalizedStopAtBad(Tail(list))
    ELSE << >>

\* the loop building `normalized`
RECURSIVE Normalized(_)
Normalized(list) ==
    IF list = << >> THEN << >>
    ELSE IF CoerceOK(Head(list)) THEN << Coerce(Head(list)) >> \o Normalized(Tail(list))
    ELSE Normalized(Tail(list))

\* mutant: the to value is not consulted
RangeCheckNoTo(scope, n) ==
    LET from_value == scope.from
    IN  IF from_value.t # "none" /\ CoerceOK(from_value)
        THEN n >= Coerce(from_value) ELSE TRUE

\* mutant: a from or to value that does not coerce rejects the slide
RangeCheckRejectsBad(scope, n) ==
    LET from_value == scope.from
        to_value   == scope.to
    IN  IF from_value.t = "bad" \/ to_value.t = "bad" THEN FALSE
        ELSE LET start == IF from_value.t # "none" THEN Coerce(from_value) ELSE 1
                 end   == IF to_value.t # "none" THEN Coerce(to_value) ELSE n
             IN  ~ (n < start \/ n > end)

RangeCheck(scope, n) ==
    LET from_value == scope.from
        to_value   == scope.to
    IN  IF from_value.t # "none" \/ to_value.t # "none"
        THEN LET start == IF from_value.t # "none" /\ CoerceOK(from_value)
                          THEN Coerce(from_value) ELSE 1
                 end   == IF to_value.t # "none" /\ CoerceOK(to_value)
                          THEN Coerce(to_value) ELSE n
             IN  ~ (n < start \/ n > end)
        ELSE TRUE

\* mutant: the slide list is not consulted
SlideInScopeNoList(scope, n) ==
    IF scope.kind # "slides" THEN TRUE ELSE RangeCheck(scope, n)

SlideInScope(scope, n) ==
    IF scope.kind # "slides" THEN TRUE
    ELSE LET normalized == Normalized(scope.list)
         IN  IF scope.isList /\ Len(scope.list) > 0 /\ normalized # << >>
             THEN n \in Range(normalized)
             ELSE RangeCheck(scope, n)

\* Scope values.  kind: "absent" (None, missing or {}), "notdict" (a non-map),
\* "noslides" (a map whose slides entry is absent or no map), "slides".
NoScope      == [kind |-> "absent", isList |-> FALSE, list |-> << >>, from |-> NoneV, to |-> NoneV]
ListScope(l) == [kind |-> "slides", isList |-> TRUE, list |-> l, from |-> NoneV, to |-> NoneV]

-----------------------------------------------------------------------------
(* apply_text_action *)

\* the replacement after defaulting
EffectiveReplacement(action) ==
    IF ~ action.replacement.isStr \/ Strip(action.replacement.s) = << >>
    THEN REDACTED
    ELSE action.replacement.s

\* str.lower() on the mode strings that occur
LowerMode(m) == IF m = "EXACT" THEN "exact" ELSE m

\* (match.get("mode") or "keyword").lower()
ApplyMode(action) ==
    IF action.mode \in { "missing", "null", "" } THEN "keyword" ELSE LowerMode(action.mode)

\* re.compile(pattern) succeeds: no unterminated group
CompileOK(pattern) == \A i \in DOMAIN pattern : pattern[i] # "("

\* mutant: a keyword token is compiled without re.escape
PatCharMatchUnescaped(p, c, literal) ==
    IF p = "." THEN TRUE ELSE LowerChar(p) = LowerChar(c)

\* one pattern character against one text character under re.IGNORECASE
PatCharMatch(p, c, literal) ==
    IF ~ literal /\ p = "." THEN TRUE ELSE LowerChar(p) = LowerChar(c)

\* the pattern matches at the start of text
MatchAtStart(pattern, text, literal) ==
    /\ Len(pattern) <= Len(text)
    /\ \A i \in DOMAIN pattern : PatCharMatch(pattern[i], text[i], literal)

\* regex.search(text)
Search(pattern, text, literal) ==
    \E k \in 0 .. Len(text) :
        k + Len(pattern) <= Len(text)
        /\ MatchAtStart(pattern, SubSeq(text, k + 1, Len(text)), literal)

\* the replacement template of re.sub parses: no backslash before a letter,
\* and no backslash at the end
RECURSIVE TemplateOK(_)
TemplateOK(r) ==
    IF r = << >> THEN TRUE
    ELSE IF Head(r) # "\\" THEN TemplateOK(Tail(r))
    ELSE IF Len(r) = 1 THEN FALSE
    ELSE IF r[2] \in BadEscapeLetters THEN FALSE
    ELSE TemplateOK(SubSeq(r, 3, Len(r)))

\* the text a parsed template inserts: \\ is one backslash, a backslash before
\* any other non-letter stays with it
RECURSIVE Expand(_)
Expand(r) ==
    IF r = << >> THEN << >>
    ELSE IF Head(r) # "\\" THEN << Head(r) >> \o Expand(Tail(r))
    ELSE IF r[2] = "\\" THEN << "\\" >> \o Expand(SubSeq(r, 3, Len(r)))
    ELSE << r[1], r[2] >> \o Expand(SubSeq(r, 3, Len(r)))

\* regex.sub(replacement, text): leftmost non-overlapping matches, left to right
RECURSIVE SubAll(_, _, _, _)
SubAll(pattern, ins, text, literal) ==
    IF Len(text) < Len(pattern) THEN text
    ELSE IF MatchAtStart(pattern, text, literal)
    THEN ins \o SubAll(pattern, ins, SubSeq(text, Len(pattern) + 1, Len(text)), literal)
    ELSE << Head(text) >> \o SubAll(pattern, ins, Tail(text), literal)

\* the pattern of interpret_instructions, r"\b\$?\d[\d,]*(?:\.\d+)?\b",
\* character by character
AmountPattern ==
    << "\\", "b", "\\", "$", "?", "\\", "d", "[", "\\", "d", ",", "]", "*", "(", "?",
       ":", "\\", ".", "\\", "d", "+", ")", "?", "\\", "b" >>

Digits == { "0", "1", "2", "3", "4", "5", "6", "7", "8", "9" }

Letters ==
    { "a", "b", "c", "d", "e", "f", "g", "h", "i", "j", "k", "l", "m", "n", "o", "p", "q",
      "r", "s", "t", "u", "v", "w", "x", "y", "z", "A", "B", "C", "D", "E", "F", "G", "H",
      "I", "J", "K", "L", "M", "N", "O", "P", "Q", "R", "S", "T", "U", "V", "W", "X", "Y",
      "Z" }

\* \w at position k of text; no position is no word character
WordAt(text, k) == k \in DOMAIN text /\ text[k] \in Digits \cup Letters \cup { "_" }

\* \b between the positions k and k + 1
BoundaryAfter(text, k) == WordAt(text, k) # WordAt(text, k + 1)

\* the last position of the longest run of characters of S that starts at k
\* (k - 1 when text[k] is not in S)
RECURSIVE RunEnd(_, _, _)
RunEnd(text, k, S) ==
    IF k \in DOMAIN text /\ text[k] \in S THEN RunEnd(text, k + 1, S) ELSE k - 1

\* [\d,]* ending at s, then (?:\.\d+)?\b: the end of the match, 0 for none.
\* The star gives back one character at a time down to d, the first digit.
RECURSIVE AmountTail(_, _, _)
AmountTail(text, s, d) ==
    LET f == RunEnd(text, s + 2, Digits)
    IN  IF s + 1 \in DOMAIN text /\ text[s + 1] = "." /\ f >= s + 2
           /\ BoundaryAfter(text, f)
        THEN f
        ELSE IF BoundaryAfter(text, s) THEN s
        ELSE IF s > d THEN AmountTail(text, s - 1, d)
        ELSE 0

\* the end of the match of AmountPattern that starts at position i, 0 for none
AmountEnd(text, i) ==
    LET d == IF text[i] = "$" THEN i + 1 ELSE i
    IN  IF BoundaryAfter(text, i - 1) /\ d \in DOMAIN text /\ text[d] \in Digits
        THEN AmountTail(text, RunEnd(text, d + 1, Digits \cup { "," }), d)
        ELSE 0

\* sub with AmountPattern from position i on
RECURSIVE AmountSub(_, _, _)
AmountSub(text, i, ins) ==
    IF i > Len(text) THEN << >>
    ELSE LET e == AmountEnd(text, i)
         IN  IF e > 0 THEN ins \o AmountSub(text, e + 1, ins)
             ELSE << text[i] >> \o AmountSub(text, i + 1, ins)

\* re.compile(pattern, re.IGNORECASE) succeeds
RegexCompiles(pattern) == pattern = AmountPattern \/ CompileOK(pattern)

\* regex.search(updated_text)
RegexSearch(pattern, text) ==
    IF pattern = AmountPattern THEN \E i \in DOMAIN text : AmountEnd(text, i) > 0
    ELSE Search(pattern, text, FALSE)

\* regex.sub(replacement, updated_text), the template being parsed
RegexSub(pattern, ins, text) ==
    IF pattern = AmountPattern THEN AmountSub(text, 1, ins)
    ELSE SubAll(pattern, ins, text, FALSE)

Unchanged(text) == [text |-> text, changed |-> FALSE, raised |-> FALSE]

\* mutant: the text and the target are compared without trimming
ApplyExactUntrimmed(text, action, replacement) ==
    LET exact_text == action.text
    IN  IF exact_text # << >> /\ text = exact_text
        THEN [text |-> replacement, changed |-> TRUE, raised |-> FALSE]
        ELSE Unchanged(text)

ApplyExact(text, action, replacement) ==
    LET exact_text == action.text
    IN  IF exact_text # << >> /\ Strip(text) = Strip(exact_text)
        THEN [text |-> replacement, changed |-> TRUE, raised |-> FALSE]
        ELSE Unchanged(text)

\* mutant: re.error is not caught
ApplyRegexNoCatch(text, action, replacement) ==
    LET pattern == action.pattern
    IN  IF Strip(pattern) = << >> THEN Unchanged(text)
        ELSE IF ~ RegexCompiles(pattern)
        THEN [text |-> text, changed |-> FALSE, raised |-> TRUE]
        ELSE IF ~ RegexSearch(pattern, text) THEN Unchanged(text)
        ELSE IF ~ TemplateOK(replacement)
        THEN [text |-> text, changed |-> FALSE, raised |-> TRUE]
        ELSE LET updated == RegexSub(pattern, Expand(replacement), text)
             IN  [text |-> updated, changed |-> updated # text, raised |-> FALSE]

ApplyRegex(text, action, replacement) ==
    LET pattern == action.pattern
    IN  IF Strip(pattern) = << >> THEN Unchanged(text)
        ELSE IF ~ RegexCompiles(pattern) THEN Unchanged(text)
        ELSE IF ~ RegexSearch(pattern, text) THEN Unchanged(text)
        ELSE IF ~ TemplateOK(replacement) THEN Unchanged(text)
        ELSE LET updated == RegexSub(pattern, Expand(replacement), text)
             IN  [text |-> updated, changed |-> updated # text, raised |-> FALSE]

\* token_list: the non-blank tokens, stripped
RECURSIVE TokenList(_)
TokenList(tokens) ==
    IF tokens = << >> THEN << >>
    ELSE IF Strip(Head(tokens)) # << >>
    THEN << Strip(Head(tokens)) >> \o TokenList(Tail(tokens))
    ELSE TokenList(Tail(tokens))

\* the loop over token_list, from the accumulator acc
RECURSIVE KeywordLoop(_, _, _)
KeywordLoop(acc, token_list, replacement) ==
    IF token_list = << >> \/ acc.raised THEN acc
    ELSE LET token == Head(token_list)
         IN  IF ~ Search(token, acc.text, TRUE)
             THEN KeywordLoop(acc, Tail(token_list), replacement)
             ELSE IF ~ TemplateOK(replacement)
             THEN [text |-> acc.text, changed |-> acc.changed, raised |-> TRUE]
             ELSE KeywordLoop(
                      [text |-> SubAll(token, Expand(replacement), acc.text, TRUE),
                       changed |-> TRUE, raised |-> FALSE],
                      Tail(token_list), replacement)

ApplyKeyword(text, action, replacement) ==
    KeywordLoop(Unchanged(text), TokenList(action.tokens), replacement)

\* apply_text_action(text, action): the updated text, the changed flag, and
\* whether the call raised
ApplyTextAction(text, action) ==
    LET replacement == EffectiveReplacement(action)
        mode == ApplyMode(action)
    IN  IF mode = "exact" THEN ApplyExact(text, action, replacement)
        ELSE IF mode = "regex" THEN ApplyRegex(text, action, replacement)
        ELSE ApplyKeyword(text, action, replacement)

-----------------------------------------------------------------------------
(* Actions (the maps handed to generate_rule_actions).                     *)
(*   mode: the value of match["mode"]; "missing" when the key or the whole *)
(*         match is absent, "null" when it is None                         *)
(*   text, tokens, pattern: the match fields (empty when absent)           *)
(*   replacement: isStr is FALSE for an absent or non-string replacement   *)
(*   metadata: "none" when absent or empty                                 *)

Repl(s) == [isStr |-> TRUE, s |-> s]
NoRepl  == [isStr |-> FALSE, s |-> << >>]

Action(mode, text, tokens, pattern, replacement, scope, metadata) ==
    [mode |-> mode, text |-> text, tokens |-> tokens, pattern |-> pattern,
     replacement |-> replacement, scope |-> scope, metadata |-> metadata]

\* _action_priority raises: None has no lower()
PriorityRaises(action) == action.mode = "null"

\* (action.get("match") or {}).get("mode", "").lower()
SortMode(action) == IF action.mode = "missing" THEN "" ELSE LowerMode(action.mode)

\* mutant: regex actions sort before exact actions
ActionPriorityRegexFirst(action) ==
    LET mode == SortMode(action)
    IN  IF mode = "regex" THEN 0 ELSE IF mode = "exact" THEN 1 ELSE 2

\* _action_priority
ActionPriority(action) ==
    LET mode == SortMode(action)
    IN  IF mode = "exact" THEN 0 ELSE IF mode = "regex" THEN 1 ELSE 2

\* mutant: the actions are applied in input order, unsorted
OrderedActionsUnsorted(acts) == [i \in 1 .. Len(acts) |-> i]

\* mutant: an insertion that puts x before the entries of equal key
RECURSIVE InsertUnstable(_, _, _)
InsertUnstable(x, sorted, acts) ==
    IF sorted = << >> THEN << x >>
    ELSE IF ActionPriority(acts[sorted[Len(sorted)]]) < ActionPriority(acts[x])
    THEN Append(sorted, x)
    ELSE Append(InsertUnstable(x, SubSeq(sorted, 1, Len(sorted) - 1), acts),
                sorted[Len(sorted)])

\* one insertion of a stable sort: x goes behind every entry whose key is not larger
RECURSIVE InsertStable(_, _, _)
InsertStable(x, sorted, acts) ==
    IF sorted = << >> THEN << x >>
    ELSE IF ActionPriority(acts[sorted[Len(sorted)]]) <= ActionPriority(acts[x])
    THEN Append(sorted, x)
    ELSE Append(InsertStable(x, SubSeq(sorted, 1, Len(sorted) - 1), acts),
                sorted[Len(sorted)])

RECURSIVE SortPrefix(_, _)
SortPrefix(acts, n) ==
    IF n = 0 THEN << >> ELSE InsertStable(n, SortPrefix(acts, n - 1), acts)

\* sorted(actions, key=_action_priority), as indices into actions
OrderedActions(acts) == SortPrefix(acts, Len(acts))

-----------------------------------------------------------------------------
(* The deck *)

Element(type, key, bbox, paragraphs) ==
    [type |-> type, key |-> key, bbox |-> bbox, paragraphs |-> paragraphs]

Slide(index, elements) == [index |-> index, elements |-> elements]

\* mutant: the paragraph is edited in place
DeckAfterParagraphInPlace(d, s, e, p, text) ==
    [d EXCEPT ![s].elements[e].paragraphs[p] = text]

\* the write the paragraph loop makes to the deck when it emits: none
DeckAfterParagraph(d, s, e, p, text) == d

\* mutant: only an element without a key is skipped
SkipsElementWithoutKey(element) == element.key = ""

\* the two `continue` tests of the element loop: not a textbox, or no key
SkipsElement(element) == element.type # "textbox" \/ element.key = ""

\* mutant: a paragraph of blanks is skipped as well
SkipsParagraphIfBlank(original_text) == Strip(original_text) = << >>

\* the `continue` test of the paragraph loop: no text
SkipsParagraph(original_text) == original_text = << >>

\* mutant: the first action that changes the paragraph ends its evaluation
BreaksLoopAlways(action) == TRUE

\* `if mode == "exact": break` after a change
BreaksLoop(action) == SortMode(action) = "exact"

\* mutant: a changing action without metadata leaves the earlier metadata
AppliedMetadataIfAny(previous, action) ==
    IF action.metadata = "none" THEN previous ELSE action.metadata

\* `applied_action_metadata = action.get("metadata")` on every change; a
\* result has the metadata field only if that value is not empty ("none")
AppliedMetadata(previous, action) == action.metadata

\* mutant: a result is emitted whenever some action reported a change
ShouldEmitIfChanged(chg, text, original_text) == chg

\* `if changed and new_text != original_text`
ShouldEmit(chg, text, original_text) == chg /\ text # original_text

-----------------------------------------------------------------------------
(* generate_rule_actions, one step per loop iteration *)

Cursor == << si, ei, pi, ai, slide_no, new_text, changed, applied_meta, evalLog >>
Inputs == << deck, actions >>
Harness == << run, variant, first, ScopeVars, ApplyVars, ExtractVars, ConvertVars,
             ProcessVars >>

\* mutant: the caller's list is sorted in place (list.sort)
ActionsAfterSortInPlace(acts) == [k \in DOMAIN acts |-> acts[OrderedActions(acts)[k]]]

\* the caller's list after `sorted(actions, ...)`, which builds a new list
ActionsAfterSort(acts) == acts

\* `if not actions: return []`
ReturnEmpty ==
    /\ pc = "start"
    /\ actions = << >>
    /\ pc' = "done"
    /\ results' = << >>
    /\ UNCHANGED << Inputs, ordered, Cursor, visited, Harness >>

\* sorted(actions, key=_action_priority), then the slide loop starts
SortActions ==
    /\ pc = "start"
    /\ actions # << >>
    /\ \A i \in DOMAIN actions : ~ PriorityRaises(actions[i])
    /\ ordered' = OrderedActions(actions)
    /\ actions' = ActionsAfterSort(actions)
    /\ si' = 1
    /\ pc' = "slides"
    /\ UNCHANGED << deck, ei, pi, ai, slide_no, new_text, changed, applied_meta,
                    evalLog, results, visited, Harness >>

\* the sort key raises on a null mode
SortRaises ==
    /\ pc = "start"
    /\ actions # << >>
    /\ \E i \in DOMAIN actions : PriorityRaises(actions[i])
    /\ pc' = "raised"
    /\ UNCHANGED << Inputs, ordered, Cursor, results, visited, Harness >>

\* `for slide in slides`: the loop ends, or the slide is skipped, or entered
NextSlide ==
    /\ pc = "slides"
    /\ IF si > Len(deck)
       THEN /\ pc' = "done"
            /\ UNCHANGED << si, ei, slide_no >>
       ELSE LET slide_index == deck[si].index
            IN  IF slide_index.t = "none" \/ ~ CoerceOK(slide_index)
                THEN /\ si' = si + 1
                     /\ UNCHANGED << pc, ei, slide_no >>
                ELSE /\ slide_no' = Coerce(slide_index) + 1
                     /\ ei' = 1
                     /\ pc' = "elements"
                     /\ UNCHANGED si
    /\ UNCHANGED << Inputs, ordered, pi, ai, new_text, changed, applied_meta,
                    evalLog, results, visited, Harness >>

\* `for element in elements`: only textbox elements with a key are entered
NextElement ==
    /\ pc = "elements"
    /\ IF ei > Len(deck[si].elements)
       THEN /\ si' = si + 1
            /\ pc' = "slides"
            /\ UNCHANGED << ei, pi >>
       ELSE LET element == deck[si].elements[ei]
            IN  IF SkipsElement(element)
                THEN /\ ei' = ei + 1
                     /\ UNCHANGED << pc, si, pi >>
                ELSE /\ pi' = 1
                     /\ pc' = "paragraphs"
                     /\ UNCHANGED << si, ei >>
    /\ UNCHANGED << Inputs, ordered, ai, slide_no, new_text, changed, applied_meta,
                    evalLog, results, visited, Harness >>

\* `for paragraph in paragraphs`: a paragraph without text is skipped
NextParagraph ==
    /\ pc = "paragraphs"
    /\ IF pi > Len(deck[si].elements[ei].paragraphs)
       THEN /\ ei' = ei + 1
            /\ pc' = "elements"
            /\ UNCHANGED << pi, ai, new_text, changed, applied_meta, evalLog >>
       ELSE LET original_text == deck[si].elements[ei].paragraphs[pi]
            IN  IF SkipsParagraph(original_text)
                THEN /\ pi' = pi + 1
                     /\ UNCHANGED << pc, ei, ai, new_text, changed, applied_meta, evalLog >>
                ELSE /\ new_text' = original_text
                     /\ changed' = FALSE
                     /\ applied_meta' = "none"
                     /\ ai' = 1
                     /\ evalLog' = << >>
                     /\ pc' = "actions"
                     /\ UNCHANGED << ei, pi >>
    /\ UNCHANGED << Inputs, ordered, si, slide_no, results, visited, Harness >>

\* one iteration of `for action in ordered_actions`
EvalAction ==
    /\ pc = "actions"
    /\ ai <= Len(ordered)
    /\ LET action == actions[ordered[ai]]
           inScope == SlideInScope(action.scope, slide_no)
           r == ApplyTextAction(new_text, action)
           entry == [idx |-> ordered[ai], inScope |-> inScope, before |-> new_text,
                     changed |-> inScope /\ ~ r.raised /\ r.changed]
       IN  /\ evalLog' = Append(evalLog, entry)
           /\ IF ~ inScope
              THEN /\ ai' = ai + 1
                   /\ UNCHANGED << pc, new_text, changed, applied_meta >>
              ELSE IF r.raised
              THEN /\ pc' = "raised"
                   /\ UNCHANGED << ai, new_text, changed, applied_meta >>
              ELSE IF ~ r.changed
              THEN /\ ai' = ai + 1
                   /\ UNCHANGED << pc, new_text, changed, applied_meta >>
              ELSE /\ new_text' = r.text
                   /\ changed' = TRUE
                   /\ applied_meta' = AppliedMetadata(applied_meta, action)
                   /\ IF BreaksLoop(action)
                      THEN pc' = "emit" /\ UNCHANGED ai
                      ELSE ai' = ai + 1 /\ UNCHANGED pc
    /\ UNCHANGED << Inputs, ordered, si, ei, pi, slide_no, results, visited, Harness >>

\* the action loop ran to its end
ActionsDone ==
    /\ pc = "actions"
    /\ ai > Len(ordered)
    /\ pc' = "emit"
    /\ UNCHANGED << Inputs, ordered, Cursor, results, visited, Harness >>

\* `if changed and new_text != original_text: results.append(...)`
FinishParagraph ==
    /\ pc = "emit"
    /\ LET element == deck[si].elements[ei]
           original_text == element.paragraphs[pi]
           emit == ShouldEmit(changed, new_text, original_text)
       IN  /\ results' =
                 IF emit
                 THEN Append(results,
                             [slide_no |-> slide_no, element_key |-> element.key,
                              bbox |-> element.bbox, original_text |-> original_text,
                              new_text |-> new_text, metadata |-> applied_meta])
                 ELSE results
           /\ visited' = Append(visited,
                                [si |-> si, ei |-> ei, pi |-> pi, slide_no |-> slide_no,
                                 original |-> original_text, final |-> new_text,
                                 emitted |-> emit, log |-> evalLog])
           /\ deck' = DeckAfterParagraph(deck, si, ei, pi, new_text)
    /\ pi' = pi + 1
    /\ pc' = "paragraphs"
    /\ UNCHANGED << actions, ordered, si, ei, ai, slide_no, new_text, changed,
                    applied_meta, evalLog, Harness >>

Walk ==
    \/ ReturnEmpty \/ SortActions \/ SortRaises
    \/ NextSlide \/ NextElement \/ NextParagraph
    \/ EvalAction \/ ActionsDone \/ FinishParagraph

-----------------------------------------------------------------------------
(* Inputs *)

T_cd    == << "c", "d" >>
T_cdSp  == << " ", "c", "d" >>
T_sp    == << " " >>
T_cCc   == << "c", "C", "c" >>
T_xDot  == << "x", "." >>

SlideA(index) ==
    Slide(index,
          << Element("textbox", "k1", "b1", << T_cd, T_sp, << >> >>),
             Element("table", "kt", "bt", << T_cd >>) >>)

SlideB(index) ==
    Slide(index,
          << Element("textbox", "k2", "b2", << T_cd, T_cCc >>),
             Element("textbox", "", "b3", << T_cd >>) >>)

SlideC(index) ==
    Slide(index, << Element("textbox", "k4", "b4", << T_xDot, T_cdSp >>),
                    Element("picture", "kp", "bp", << T_xDot >>) >>)

Decks ==
    { << >>,
      << SlideB(StrV(1)), SlideA(IntV(0)) >>,
      << SlideC(NoneV), SlideC(BadV), SlideB(FloatV(15)), SlideC(IntV(0)) >> }

ActionChoices ==
    { \* exact, target trimmed, with metadata
      Action("exact", << "c", "d", " " >>, << >>, << >>, Repl(<< "X" >>), NoScope, "m1"),
      \* exact in upper case, blank replacement, scoped to slide 1
      Action("EXACT", T_cd, << >>, << >>, Repl(<< " " >>), ListScope(<< IntV(1) >>), "none"),
      \* exact with an empty target
      Action("exact", << >>, << >>, << >>, Repl(<< "X" >>), NoScope, "none"),
      \* regex matching any character
      Action("regex", << >>, << >>, << "." >>, Repl(<< "Y" >>), NoScope, "m2"),
      \* regex d -> x, scoped to slide list ["2"]
      Action("regex", << >>, << >>, << "d" >>, Repl(<< "x" >>), ListScope(<< StrV(2) >>), "none"),
      \* regex that does not compile
      Action("regex", << >>, << >>, << "(", "c" >>, Repl(<< "X" >>), NoScope, "m1"),
      \* keyword x -> d (undoes the regex above)
      Action("keyword", << >>, << << "x" >> >>, << >>, Repl(<< "d" >>), NoScope, "none"),
      \* keyword cc -> c
      Action("keyword", << >>, << << "c", "c" >> >>, << >>, Repl(<< "c" >>), NoScope, "m1"),
      \* keyword with a blank token and a token, default replacement, a slide
      \* list without any integer
      Action("keyword", << >>, << << " " >>, << "x" >> >>, << >>, NoRepl,
             ListScope(<< BadV >>), "m2"),
      \* keyword with the token "."
      Action("keyword", << >>, << << "." >> >>, << >>, Repl(<< "Y", "Y" >>), NoScope, "none"),
      \* keyword whose replacement is no valid template
      Action("keyword", << >>, << << "c", "d" >> >>, << >>, Repl(<< "\\" >>), NoScope, "none"),
      \* mode null
      Action("null", << >>, << << "c" >> >>, << >>, Repl(<< "X" >>), NoScope, "none"),
      \* mode missing
      Action("missing", << >>, << << "d" >> >>, << >>, Repl(<< "Y" >>), NoScope, "m1"),
      \* unrecognised mode
      Action("fuzzy", T_cd, << << "c" >> >>, << "c" >>, Repl(<< "Y" >>), NoScope, "none") }

RECURSIVE SeqsUpTo(_, _)
SeqsUpTo(S, n) ==
    IF n = 0 THEN { << >> }
    ELSE LET shorter == SeqsUpTo(S, n - 1)
         IN  shorter \cup { Append(q, x) : q \in shorter, x \in S }

ActionLists == SeqsUpTo(ActionChoices, MaxActions)

-----------------------------------------------------------------------------------------------------------------------------------------------------
(* Specification: a call of generate_rule_actions, and a second call that  *)
(* repeats it on the same inputs, on the deck with the first call's edits  *)
(* applied, or without one action whose regex does not compile             *)

ScopeIdle ==
    /\ scopeArg = NoScope
    /\ slideArg = 0
    /\ scopeResult = "unset"

ApplyIdle ==
    /\ applyText = << >>
    /\ applyAction = Action("missing", << >>, << >>, << >>, NoRepl, NoScope, "none")
    /\ applyResult = Unchanged(<< >>)

ExtractIdle ==
    /\ samples = << >>
    /\ paragraph_lookup = << >>
    /\ paragraph_counter = 1
    /\ sampled_indices = << >>
    /\ xi = 0
    /\ summarized = << >>

ConvertIdle ==
    /\ llm_result = [entity_redactions |-> << >>, paragraph_rewrites |-> << >>,
                     patterns |-> << >>]
    /\ converted = << >>
    /\ ci = 0
    /\ convLog = << >>

NoMeta == [source |-> "none", error |-> "", samplesProvided |-> 0]

NoResponse == [deckId |-> "", ruleId |-> "", actionCount |-> 0, meta |-> NoMeta]

ProcessIdle ==
    /\ instructions = << >>
    /\ deck_id = ""
    /\ client_ok = TRUE
    /\ meta = NoMeta
    /\ title = << >>
    /\ rule_id = ""
    /\ persisted = << >>
    /\ inserted_rows = 0
    /\ response = NoResponse

InitCall(d, a) ==
    /\ deck = d
    /\ actions = a
    /\ pc = "start"
    /\ ordered = << >>
    /\ si = 0 /\ ei = 0 /\ pi = 0 /\ ai = 0
    /\ slide_no = 0
    /\ new_text = << >>
    /\ changed = FALSE
    /\ applied_meta = "none"
    /\ results = << >>
    /\ evalLog = << >>
    /\ visited = << >>
    /\ run = 1
    /\ variant = "none"
    /\ first = [deck |-> d, actions |-> a, results |-> << >>, pc |-> "none",
                visited |-> << >>]
    /\ ScopeIdle
    /\ ApplyIdle
    /\ ExtractIdle
    /\ ConvertIdle
    /\ ProcessIdle

Init == \E d \in Decks, a \in ActionLists : InitCall(d, a)

\* the deck with every edited paragraph given its new_text
DeckWithEdits(d, vis) ==
    [s \in DOMAIN d |->
        [index |-> d[s].index,
         elements |->
            [e \in DOMAIN d[s].elements |->
                [type |-> d[s].elements[e].type,
                 key |-> d[s].elements[e].key,
                 bbox |-> d[s].elements[e].bbox,
                 paragraphs |->
                    [p \in DOMAIN d[s].elements[e].paragraphs |->
                        IF \E k \in DOMAIN vis :
                              vis[k].si = s /\ vis[k].ei = e /\ vis[k].pi = p
                              /\ vis[k].emitted
                        THEN LET k == CHOOSE k \in DOMAIN vis :
                                         vis[k].si = s /\ vis[k].ei = e
                                         /\ vis[k].pi = p /\ vis[k].emitted
                             IN  vis[k].final
                        ELSE d[s].elements[e].paragraphs[p]]]]]]

\* the list without its i-th entry
RemoveAt(list, i) == SubSeq(list, 1, i - 1) \o SubSeq(list, i + 1, Len(list))

\* the action is a regex action whose pattern re.compile rejects
InvalidRegex(action) ==
    /\ ApplyMode(action) = "regex"
    /\ Strip(action.pattern) # << >>
    /\ ~ RegexCompiles(action.pattern)

Restart(d, a, v) ==
    /\ first' = [deck |-> first.deck, actions |-> first.actions, results |-> results,
                 pc |-> pc, visited |-> visited]
    /\ deck' = d
    /\ actions' = a
    /\ run' = 2
    /\ variant' = v
    /\ pc' = "start"
    /\ ordered' = << >>
    /\ si' = 0 /\ ei' = 0 /\ pi' = 0 /\ ai' = 0
    /\ slide_no' = 0
    /\ new_text' = << >>
    /\ changed' = FALSE
    /\ applied_meta' = "none"
    /\ results' = << >>
    /\ evalLog' = << >>
    /\ visited' = << >>
    /\ UNCHANGED << ScopeVars, ApplyVars, ExtractVars, ConvertVars, ProcessVars >>

\* the caller calls again with the objects it passed the first time
RerunSame ==
    /\ run = 1
    /\ pc \in { "done", "raised" }
    /\ Restart(deck, actions, "same")

\* the caller applies the edits and calls again with the same actions
RerunOnOutput ==
    /\ run = 1
    /\ pc = "done"
    /\ Restart(DeckWithEdits(deck, visited), actions, "output")

\* the caller calls again without one action whose regex does not compile
RerunWithout ==
    /\ run = 1
    /\ pc \in { "done", "raised" }
    /\ \E i \in DOMAIN actions :
          /\ InvalidRegex(actions[i])
          /\ Restart(deck, RemoveAt(actions, i), "removed")

Next == Walk \/ RerunSame \/ RerunOnOutput \/ RerunWithout

Spec == Init /\ [][Next]_vars

-----------------------------------------------------------------------------
(* Specification: slide_in_scope called on its own *)

ScopeEntries == { IntV(1), StrV(2), FloatV(35), BadV, NoneV }

ScopeBounds == { NoneV, IntV(2), StrV(1), BadV }

ScopeArgs ==
    { NoScope,
      [kind |-> "notdict", isList |-> FALSE, list |-> << >>, from |-> NoneV, to |-> NoneV],
      [kind |-> "noslides", isList |-> FALSE, list |-> << >>, from |-> NoneV, to |-> NoneV] }
    \cup { [kind |-> "slides", isList |-> il, list |-> l, from |-> f, to |-> t] :
             il \in BOOLEAN, l \in SeqsUpTo(ScopeEntries, MaxListLen),
             f \in ScopeBounds, t \in ScopeBounds }

InitScope ==
    /\ deck = << >>
    /\ actions = << >>
    /\ pc = "scope_call"
    /\ ordered = << >>
    /\ si = 0 /\ ei = 0 /\ pi = 0 /\ ai = 0
    /\ slide_no = 0
    /\ new_text = << >>
    /\ changed = FALSE
    /\ applied_meta = "none"
    /\ results = << >>
    /\ evalLog = << >>
    /\ visited = << >>
    /\ run = 1
    /\ variant = "none"
    /\ first = [deck |-> << >>, actions |-> << >>, results |-> << >>, pc |-> "none",
                visited |-> << >>]
    /\ scopeArg \in ScopeArgs
    /\ slideArg \in 1 .. MaxSlideNo
    /\ scopeResult = "unset"
    /\ ApplyIdle
    /\ ExtractIdle
    /\ ConvertIdle
    /\ ProcessIdle

CallSlideInScope ==
    /\ pc = "scope_call"
    /\ scopeResult' = IF SlideInScope(scopeArg, slideArg) THEN "true" ELSE "false"
    /\ pc' = "scope_done"
    /\ UNCHANGED << deck, actions, ordered, si, ei, pi, ai, slide_no, new_text,
                    changed, applied_meta, results, evalLog, visited, run, variant,
                    first, scopeArg, slideArg, ApplyVars, ExtractVars, ConvertVars,
                    ProcessVars >>

SpecScope == InitScope /\ [][CallSlideInScope]_vars

-----------------------------------------------------------------------------
(* Specification: apply_text_action called on its own *)

T_cdTrail == << "c", "d", " " >>
T_bs      == << "\\" >>
T_bsbs    == << "\\", "\\" >>

ApplyTexts == { << >>, T_sp, T_cd, T_cdSp, T_cCc, T_xDot }

ApplyReplacements ==
    { NoRepl, Repl(T_sp), Repl(<< "X" >>), Repl(<< "c" >>), Repl(T_bs), Repl(T_bsbs) }

ExactModes   == { "exact", "EXACT" }
KeywordModes == { "keyword", "missing", "null", "fuzzy" }

ExactTexts    == { << >>, T_sp, T_cd, T_cdTrail, << "c" >> }
RegexPatterns == { T_sp, << "." >>, << "c" >>, << "D" >>, << "(", "c" >> }
KeywordTokens ==
    { << >>, << << "c" >> >>, << T_sp, << "D" >> >>, << << "c", "c" >>, << "c" >> >>,
      << << "x" >>, T_cdTrail >>, << << "." >> >> }

ApplyActions ==
    { Action(m, t, << >>, << >>, r, NoScope, "none") :
        m \in ExactModes, t \in ExactTexts, r \in ApplyReplacements }
    \cup { Action("regex", << >>, << >>, p, r, NoScope, "none") :
             p \in RegexPatterns, r \in ApplyReplacements }
    \cup { Action(m, << >>, k, << >>, r, NoScope, "none") :
             m \in KeywordModes, k \in KeywordTokens, r \in ApplyReplacements }

\* the variables of generate_rule_actions before any call, with no deck
WalkerIdleWith(d) ==
    /\ deck = d
    /\ actions = << >>
    /\ ordered = << >>
    /\ si = 0 /\ ei = 0 /\ pi = 0 /\ ai = 0
    /\ slide_no = 0
    /\ new_text = << >>
    /\ changed = FALSE
    /\ applied_meta = "none"
    /\ results = << >>
    /\ evalLog = << >>
    /\ visited = << >>
    /\ run = 1
    /\ variant = "none"
    /\ first = [deck |-> d, actions |-> << >>, results |-> << >>, pc |-> "none",
                visited |-> << >>]

WalkerIdle == WalkerIdleWith(<< >>)

InitApply ==
    /\ WalkerIdle
    /\ ScopeIdle
    /\ ExtractIdle
    /\ ConvertIdle
    /\ ProcessIdle
    /\ pc = "apply_call"
    /\ applyText \in ApplyTexts
    /\ applyAction \in ApplyActions
    /\ applyResult = Unchanged(<< >>)

CallApplyTextAction ==
    /\ pc = "apply_call"
    /\ applyResult' = ApplyTextAction(applyText, applyAction)
    /\ pc' = IF applyResult'.raised THEN "apply_raised" ELSE "apply_done"
    /\ UNCHANGED << deck, actions, ordered, si, ei, pi, ai, slide_no, new_text,
                    changed, applied_meta, results, evalLog, visited, run, variant,
                    first, ScopeVars, applyText, applyAction, ExtractVars, ConvertVars,
                    ProcessVars >>

SpecApply == InitApply /\ [][CallApplyTextAction]_vars

-----------------------------------------------------------------------------
(* extract_deck_samples and _extract_slide_summary.                        *)
(* A table element's paragraphs stand for the paragraphs of its cells, in  *)
(* row and cell order.  The bullet character U+2022 is written "*".        *)

MaxSlides == 14

max_chars == 1000

Bullet == "*"

\* text.startswith(bullet) after lstrip()
StartsWithBullet(text) == LStrip(text) # << >> /\ Head(LStrip(text)) = Bullet

\* mutant: the id names the slide only
ParagraphIdOfSlide(slide_idx, n) == [slide |-> slide_idx + 1, counter |-> 0]

\* f"S{slide_idx + 1}-P{n}": the two numbers of the id
ParagraphId(slide_idx, n) == [slide |-> slide_idx + 1, counter |-> n]

\* paragraph_lookup[entry.paragraph_id] = entry
DictSet(lookup, entry) ==
    IF \E k \in DOMAIN lookup : lookup[k].paragraph_id = entry.paragraph_id
    THEN [k \in DOMAIN lookup |->
            IF lookup[k].paragraph_id = entry.paragraph_id THEN entry ELSE lookup[k]]
    ELSE Append(lookup, entry)

RECURSIVE DictSetAll(_, _)
DictSetAll(lookup, entries) ==
    IF entries = << >> THEN lookup
    ELSE DictSetAll(DictSet(lookup, Head(entries)), Tail(entries))

\* the non-blank paragraphs of an element, stripped, with their enumerate() index
ParagraphItems(element) ==
    LET paragraphs == element.paragraphs
        all == [i \in 1 .. Len(paragraphs) |->
                  [type |-> element.type, element_key |-> element.key,
                   paragraph_index |-> i - 1, text |-> Strip(paragraphs[i])]]
    IN  SelectSeq(all, LAMBDA item : item.text # << >>)

\* the loop over the elements: textbox paragraphs and table cell paragraphs
RECURSIVE SlideItems(_)
SlideItems(elements) ==
    IF elements = << >> THEN << >>
    ELSE (IF Head(elements).type \in { "textbox", "table" }
          THEN ParagraphItems(Head(elements)) ELSE << >>)
         \o SlideItems(Tail(elements))

\* "\n".join(aggregated_lines)
RECURSIVE JoinLines(_)
JoinLines(lines) ==
    IF lines = << >> THEN << >>
    ELSE IF Len(lines) = 1 THEN Head(lines)
    ELSE Head(lines) \o << "\n" >> \o JoinLines(Tail(lines))

\* _extract_slide_summary: the sample (none when the slide has no text), the
\* lookup and the counter afterwards
ExtractSlideSummary(slide, slide_idx, lookup, counter) ==
    LET items == SlideItems(slide.elements)
        paras == SelectSeq(items, LAMBDA item : item.type = "textbox")
        IdOf(k) == ParagraphId(slide_idx, counter + k - 1)
        entries == [k \in 1 .. Len(paras) |->
                      [paragraph_id |-> IdOf(k),
                       slide_no |-> slide_idx + 1,
                       element_key |-> paras[k].element_key,
                       paragraph_index |-> paras[k].paragraph_index,
                       text |-> paras[k].text,
                       is_bullet |-> StartsWithBullet(paras[k].text)]]
        combined == JoinLines([k \in 1 .. Len(items) |-> items[k].text])
        sample == [slide_no |-> slide_idx + 1,
                   text |-> SubSeq(combined, 1, IF Len(combined) < max_chars
                                                THEN Len(combined) ELSE max_chars),
                   paragraphs |-> [k \in 1 .. Len(paras) |->
                                     [id |-> IdOf(k), text |-> paras[k].text,
                                      is_bullet |-> StartsWithBullet(paras[k].text)]]]
    IN  [sample |-> IF combined # << >> THEN << sample >> ELSE << >>,
         lookup |-> DictSetAll(lookup, entries),
         counter |-> counter + Len(paras)]

\* mutant: one middle slide is sampled whatever the deck's length
SampleCountOne(span) == 1

\* max(1, int(span * 0.2))
SampleCount(span) == IF span \div 5 > 1 THEN span \div 5 ELSE 1

\* the lists random.sample(population, k) can return
RECURSIVE RandomSamples(_, _)
RandomSamples(population, k) ==
    IF k = 0 THEN { << >> }
    ELSE { Append(c[1], c[2]) :
             c \in { c \in RandomSamples(population, k - 1) \X population :
                       c[2] \notin Range(c[1]) } }

\* one call of _extract_slide_summary on the slide at position idx
Summarize(idx) ==
    LET r == ExtractSlideSummary(deck[idx + 1], idx, paragraph_lookup, paragraph_counter)
    IN  /\ samples' = samples \o r.sample
        /\ paragraph_lookup' = r.lookup
        /\ paragraph_counter' = r.counter
        /\ summarized' = Append(summarized, idx)

NoSummary == UNCHANGED << samples, paragraph_lookup, paragraph_counter, summarized >>

OutsideExtract == << WalkerVars, ScopeVars, ApplyVars, ConvertVars, ProcessVars >>

\* the tests on total_slides that choose the loop
ExtractStart ==
    /\ pc = "extract_start"
    /\ LET total_slides == Len(deck)
       IN  pc' = IF total_slides = 0 THEN "extract_done"
                 ELSE IF total_slides <= 5 THEN "extract_all"
                 ELSE "extract_first"
    /\ xi' = 0
    /\ NoSummary
    /\ UNCHANGED << sampled_indices, OutsideExtract >>

\* `for i in range(total_slides)` of a deck of at most 5 slides
ExtractAll ==
    /\ pc = "extract_all"
    /\ IF xi < Len(deck)
       THEN Summarize(xi) /\ xi' = xi + 1 /\ UNCHANGED pc
       ELSE NoSummary /\ pc' = "extract_done" /\ UNCHANGED xi
    /\ UNCHANGED << sampled_indices, OutsideExtract >>

\* `for i in range(min(3, total_slides))`
ExtractFirst ==
    /\ pc = "extract_first"
    /\ LET total_slides == Len(deck)
           stop == IF total_slides < 3 THEN total_slides ELSE 3
       IN  IF xi < stop
           THEN Summarize(xi) /\ xi' = xi + 1 /\ UNCHANGED pc
           ELSE /\ NoSummary
                /\ UNCHANGED xi
                /\ pc' = IF total_slides > 4 THEN "extract_sample"
                         ELSE IF total_slides > 3 THEN "extract_last"
                         ELSE "extract_done"
    /\ UNCHANGED << sampled_indices, OutsideExtract >>

\* random.sample(range(middle_start, middle_end), ...)
SampleMiddle ==
    /\ pc = "extract_sample"
    /\ LET total_slides == Len(deck)
           middle_start == 3
           middle_end == total_slides - 1
           sample_count == SampleCount(middle_end - middle_start)
           k == IF sample_count < middle_end - middle_start
                THEN sample_count ELSE middle_end - middle_start
       IN  sampled_indices' \in RandomSamples(middle_start .. middle_end - 1, k)
    /\ xi' = 1
    /\ pc' = "extract_middle"
    /\ NoSummary
    /\ UNCHANGED OutsideExtract

\* `for idx in sampled_indices`
ExtractMiddle ==
    /\ pc = "extract_middle"
    /\ IF xi <= Len(sampled_indices)
       THEN Summarize(sampled_indices[xi]) /\ xi' = xi + 1 /\ UNCHANGED pc
       ELSE /\ NoSummary
            /\ UNCHANGED xi
            /\ pc' = IF Len(deck) > 3 THEN "extract_last" ELSE "extract_done"
    /\ UNCHANGED << sampled_indices, OutsideExtract >>

\* the summary of slides[-1]
ExtractLast ==
    /\ pc = "extract_last"
    /\ Summarize(Len(deck) - 1)
    /\ pc' = "extract_done"
    /\ UNCHANGED << xi, sampled_indices, OutsideExtract >>

ExtractDeckSamples ==
    \/ ExtractStart \/ ExtractAll \/ ExtractFirst
    \/ SampleMiddle \/ ExtractMiddle \/ ExtractLast

(* Inputs *)

T_bulletC == << Bullet, "c" >>

\* the elements of the slides of the decks, by kind
SlideKinds ==
    << SlideA(NoneV).elements,
       << Element("picture", "kp", "bp", << >>) >>,
       SlideB(NoneV).elements,
       << Element("table", "kt", "bt", << T_cd >>) >>,
       SlideC(NoneV).elements,
       << Element("textbox", "k5", "b5", << T_bulletC, T_cd >>) >> >>

\* a deck of n slides whose kinds go round from the kind after `shift`
KindsDeck(n, shift) ==
    [i \in 1 .. n |->
        Slide(IntV(i - 1), SlideKinds[((i - 1 + shift) % Len(SlideKinds)) + 1])]

ExtractDecks == { KindsDeck(n, shift) : n \in 0 .. MaxSlides, shift \in 0 .. 2 }

InitExtract ==
    /\ \E d \in ExtractDecks : WalkerIdleWith(d)
    /\ ScopeIdle
    /\ ApplyIdle
    /\ ExtractIdle
    /\ ConvertIdle
    /\ ProcessIdle
    /\ pc = "extract_start"

SpecExtract == InitExtract /\ [][ExtractDeckSamples]_vars

-----------------------------------------------------------------------------
(* convert_llm_response_to_actions.                                        *)
(* A confidence is a tagged value with v in hundredths: "int" for a        *)
(* number, "absent" for a missing key, "none" for null.  An optional       *)
(* string is a Repl(s), or NoRepl when the key is absent or no string.     *)
(* Of an action's metadata the model keeps confidence, source,             *)
(* action_category and paragraph_id.                                       *)

MaxRewrites == 2

AbsentV == [t |-> "absent", v |-> 0]

\* item.get("confidence", 0)
ConfidenceOf(item) == IF item.confidence.t = "absent" THEN 0 ELSE item.confidence.v

\* the comparison `< 0.85` raises TypeError on null
ConfidenceRaises(item) == item.confidence.t = "none"

\* item.get("confidence", 0) < 0.85
LowConfidence(item) == ConfidenceOf(item) < 85

\* item.get("confidence")
ConfidenceField(item) == IF item.confidence.t = "absent" THEN NoneV ELSE item.confidence

\* item.get("replacement", "[REDACTED]")
ReplacementOrMarker(item) ==
    IF item.replacement.isStr THEN item.replacement ELSE Repl(REDACTED)

NoId == [slide |-> 0, counter |-> 0]

ConvertedAction(id, base, metadata) ==
    [id |-> id, type |-> "replace", mode |-> base.mode, text |-> base.text,
     tokens |-> base.tokens, pattern |-> base.pattern, replacement |-> base.replacement,
     scope |-> base.scope, metadata |-> metadata]

\* the action appended for an entity redaction, as the n-th of the list
EntityAction(item, n) ==
    ConvertedAction([kind |-> "entity", n |-> n],
                    Action("keyword", << >>, << item.entity >>, << >>,
                           ReplacementOrMarker(item), NoScope, "none"),
                    [confidence |-> ConfidenceField(item),
                     source |-> "llm_entity_extraction",
                     action_category |-> "entity_replacement",
                     paragraph_id |-> NoId])

\* the action appended for a pattern
PatternAction(item, n) ==
    ConvertedAction([kind |-> "pattern", n |-> n],
                    Action("regex", << >>, << >>, item.regex,
                           ReplacementOrMarker(item), NoScope, "none"),
                    [confidence |-> ConfidenceField(item),
                     source |-> "llm_pattern_extraction",
                     action_category |-> "pattern_match",
                     paragraph_id |-> NoId])

\* paragraph_lookup.get(paragraph_id): the entries under the id (none or one)
LookupGet(lookup, id) == SelectSeq(lookup, LAMBDA info : info.paragraph_id = id)

\* [info for info in paragraph_lookup.values() if info.get("text") == normalized]
TextMatches(lookup, normalized) == SelectSeq(lookup, LAMBDA info : info.text = normalized)

\* mutant: the first of several matches is taken
SomeMatch(matches) == Len(matches) >= 1

\* len(matches) == 1
UniqueMatch(matches) == Len(matches) = 1

\* the paragraph the rewrite resolves to: by id, else by its raw text (none or one)
ResolveRewrite(rewrite, lookup) ==
    LET byId == IF rewrite.paragraph_id.isStr
                THEN LookupGet(lookup, rewrite.paragraph_id.id) ELSE << >>
        original_text == rewrite.original_text
    IN  IF byId # << >> THEN << byId[1] >>
        ELSE IF original_text.isStr /\ Strip(original_text.s) # << >>
        THEN LET matches == TextMatches(lookup, Strip(original_text.s))
             IN  IF UniqueMatch(matches) THEN << matches[1] >> ELSE << >>
        ELSE << >>

\* the bullet prefix restored on the rewrite of a bullet paragraph
BulletText(info, replacement_text) ==
    IF info.is_bullet /\ ~ StartsWithBullet(replacement_text)
    THEN << Bullet, " " >> \o LStrip(replacement_text)
    ELSE replacement_text

\* the action appended for a paragraph rewrite, as the n-th of the list (none
\* when the rewrite is skipped)
RewriteAction(rewrite, lookup, n) ==
    LET resolved == ResolveRewrite(rewrite, lookup)
        rewritten == rewrite.rewritten_text
    IN  IF resolved = << >> THEN << >>
        ELSE IF ~ rewritten.isStr THEN << >>
        ELSE IF Strip(rewritten.s) = << >> THEN << >>
        ELSE IF resolved[1].text = << >> THEN << >>
        ELSE LET paragraph_info == resolved[1]
             IN  << ConvertedAction(
                      [kind |-> "rewrite", n |-> n],
                      Action("exact", paragraph_info.text, << >>, << >>,
                             Repl(BulletText(paragraph_info, Strip(rewritten.s))),
                             IF paragraph_info.slide_no # 0
                             THEN ListScope(<< IntV(paragraph_info.slide_no) >>)
                             ELSE NoScope,
                             "none"),
                      [confidence |-> ConfidenceField(rewrite),
                       source |-> "llm_paragraph_rewrite",
                       action_category |-> "paragraph_rewrite",
                       paragraph_id |-> paragraph_info.paragraph_id]) >>

OutsideConvert == << WalkerVars, ScopeVars, ApplyVars, samples, paragraph_lookup,
                    paragraph_counter, sampled_indices, xi, summarized, llm_result,
                    ProcessVars >>

\* one item of the list handled: it raises, is skipped, or appends `made`
ConvertItem(list, item, raises, made, nextpc) ==
    IF ci > Len(llm_result[list])
    THEN /\ pc' = nextpc
         /\ ci' = 1
         /\ UNCHANGED << converted, convLog >>
    ELSE IF raises
    THEN /\ pc' = "convert_raised"
         /\ UNCHANGED << converted, ci, convLog >>
    ELSE /\ converted' = converted \o made
         /\ convLog' = Append(convLog, [list |-> list, index |-> ci,
                                        produced |-> made # << >>,
                                        at |-> Len(converted) + 1])
         /\ ci' = ci + 1
         /\ UNCHANGED pc

\* `for entity_redaction in entity_redactions`
ConvertEntity ==
    /\ pc = "convert_entities"
    /\ LET list == llm_result.entity_redactions
           item == list[ci]
       IN  ConvertItem("entity_redactions", item,
                       ci <= Len(list) /\ (ConfidenceRaises(item)
                                            \/ (~ LowConfidence(item) /\ ~ item.hasKey)),
                       IF ci <= Len(list) /\ ~ LowConfidence(item)
                       THEN << EntityAction(item, Len(converted)) >> ELSE << >>,
                       "convert_rewrites")
    /\ UNCHANGED OutsideConvert

\* `for rewrite in paragraph_rewrites`
ConvertRewrite ==
    /\ pc = "convert_rewrites"
    /\ LET list == llm_result.paragraph_rewrites
           item == list[ci]
       IN  ConvertItem("paragraph_rewrites", item,
                       ci <= Len(list) /\ ConfidenceRaises(item),
                       IF ci <= Len(list) /\ ~ LowConfidence(item)
                       THEN RewriteAction(item, paragraph_lookup, Len(converted))
                       ELSE << >>,
                       "convert_patterns")
    /\ UNCHANGED OutsideConvert

\* `for pattern in patterns`
ConvertPattern ==
    /\ pc = "convert_patterns"
    /\ LET list == llm_result.patterns
           item == list[ci]
       IN  ConvertItem("patterns", item,
                       ci <= Len(list) /\ (ConfidenceRaises(item)
                                            \/ (~ LowConfidence(item) /\ ~ item.hasKey)),
                       IF ci <= Len(list) /\ ~ LowConfidence(item)
                       THEN << PatternAction(item, Len(converted)) >> ELSE << >>,
                       "convert_done")
    /\ UNCHANGED OutsideConvert

ConvertLlmResponseToActions == ConvertEntity \/ ConvertRewrite \/ ConvertPattern

(* Inputs *)

\* extract_deck_samples on a deck of at most 5 slides, from position i on
RECURSIVE ExtractedAll(_, _, _)
ExtractedAll(d, i, acc) ==
    IF i >= Len(d) THEN acc
    ELSE LET r == ExtractSlideSummary(d[i + 1], i, acc.lookup, acc.counter)
         IN  ExtractedAll(d, i + 1, [samples |-> acc.samples \o r.sample,
                                      lookup |-> r.lookup, counter |-> r.counter])

ConvertDecks == { KindsDeck(3, 0), KindsDeck(2, 4) }

Pct(n) == IntV(n)

KnownId   == [isStr |-> TRUE, id |-> ParagraphId(0, 1)]
UnknownId == [isStr |-> TRUE, id |-> ParagraphId(8, 9)]
AbsentId  == [isStr |-> FALSE, id |-> NoId]

Rewrite(paragraph_id, original_text, rewritten_text, confidence) ==
    [paragraph_id |-> paragraph_id, original_text |-> original_text,
     rewritten_text |-> rewritten_text, confidence |-> confidence]

RewriteChoices ==
    { Rewrite(KnownId, NoRepl, Repl(<< "X" >>), Pct(90)),
      Rewrite(UnknownId, Repl(<< " ", "c", "C", "c", " " >>), Repl(<< " ", "Y", " " >>), Pct(85)),
      Rewrite(AbsentId, Repl(T_cd), Repl(<< "X" >>), Pct(90)),
      Rewrite(AbsentId, Repl(T_xDot), Repl(T_sp), Pct(90)),
      Rewrite(AbsentId, Repl(T_cCc), Repl(<< "X" >>), Pct(80)),
      Rewrite(AbsentId, Repl(T_cCc), NoRepl, AbsentV),
      Rewrite(AbsentId, NoRepl, Repl(<< "X" >>), Pct(90)),
      Rewrite(AbsentId, Repl(T_bulletC), Repl(<< "c" >>), Pct(90)),
      Rewrite(AbsentId, Repl(T_xDot), Repl(<< "Y" >>), NoneV) }

Entity(hasKey, entity, replacement, confidence) ==
    [hasKey |-> hasKey, entity |-> entity, replacement |-> replacement,
     confidence |-> confidence]

Pattern(hasKey, regex, replacement, confidence) ==
    [hasKey |-> hasKey, regex |-> regex, replacement |-> replacement,
     confidence |-> confidence]

EntityLists ==
    { << >>,
      << Entity(TRUE, << "c" >>, NoRepl, Pct(90)) >>,
      << Entity(FALSE, << >>, NoRepl, Pct(80)), Entity(TRUE, << "d" >>, Repl(<< "X" >>), Pct(85)) >>,
      << Entity(FALSE, << >>, NoRepl, Pct(90)) >> }

PatternLists ==
    { << >>,
      << Pattern(TRUE, << "." >>, Repl(<< "Y" >>), Pct(85)) >>,
      << Pattern(TRUE, << "c" >>, NoRepl, AbsentV), Pattern(TRUE, << "d" >>, NoRepl, Pct(90)) >> }

LlmResults ==
    { [entity_redactions |-> e, paragraph_rewrites |-> r, patterns |-> q] :
        e \in EntityLists, r \in SeqsUpTo(RewriteChoices, MaxRewrites), q \in PatternLists }

\* process_redaction: the lookup of extract_deck_samples goes to the conversion
InitConvert ==
    /\ \E d \in ConvertDecks :
          /\ WalkerIdleWith(d)
          /\ LET x == ExtractedAll(d, 0, [samples |-> << >>, lookup |-> << >>, counter |-> 1])
             IN  /\ samples = x.samples
                 /\ paragraph_lookup = x.lookup
                 /\ paragraph_counter = x.counter
          /\ xi = Len(d)
          /\ summarized = [i \in 1 .. Len(d) |-> i - 1]
    /\ sampled_indices = << >>
    /\ ScopeIdle
    /\ ApplyIdle
    /\ ProcessIdle
    /\ llm_result \in LlmResults
    /\ converted = << >>
    /\ ci = 1
    /\ convLog = << >>
    /\ pc = "convert_entities"

SpecConvert == InitConvert /\ [][ConvertLlmResponseToActions]_vars

-----------------------------------------------------------------------------
(* interpret_instructions.                                                 *)
(* An action it returns is the action map with its id and type; the match  *)
(* fields it does not set are empty.                                       *)

MaxPieces == 4

AMOUNT == << "[", "A", "M", "O", "U", "N", "T", "]" >>

\* str.lower()
Lower(s) == [i \in DOMAIN s |-> LowerChar(s[i])]

\* the length of the longest prefix of s without a character of Stop
RECURSIVE RunLen(_, _)
RunLen(s, Stop) ==
    IF s = << >> \/ Head(s) \in Stop THEN 0 ELSE 1 + RunLen(Tail(s), Stop)

StartsWith(s, w) == Len(s) >= Len(w) /\ SubSeq(s, 1, Len(w)) = w

\* `token in low`
Occurs(w, s) == \E k \in 0 .. Len(s) - Len(w) : SubSeq(s, k + 1, k + Len(w)) = w

\* re.findall(r'"([^"\\]+)"', instructions): a quote, one or more characters
\* that are no quote and no backslash, a quote; the search goes on behind it
RECURSIVE FindQuoted(_)
FindQuoted(s) ==
    IF s = << >> THEN << >>
    ELSE IF Head(s) # "\"" THEN FindQuoted(Tail(s))
    ELSE LET n == RunLen(Tail(s), { "\"", "\\" })
         IN  IF n >= 1 /\ Len(s) >= n + 2 /\ s[n + 2] = "\""
             THEN << SubSeq(s, 2, n + 1) >> \o FindQuoted(SubSeq(s, n + 3, Len(s)))
             ELSE FindQuoted(Tail(s))

RedactWord == << "r", "e", "d", "a", "c", "t", " " >>

\* re.findall(r"redact ([^.]+)", low)
RECURSIVE FindRedactChunks(_)
FindRedactChunks(low) ==
    IF low = << >> THEN << >>
    ELSE LET rest == SubSeq(low, Len(RedactWord) + 1, Len(low))
             n == RunLen(rest, { "." })
         IN  IF StartsWith(low, RedactWord) /\ n >= 1
             THEN << SubSeq(rest, 1, n) >> \o FindRedactChunks(SubSeq(rest, n + 1, Len(rest)))
             ELSE FindRedactChunks(Tail(low))

\* re.split(r",|and", chunk), cur being the part under construction
RECURSIVE SplitParts(_, _)
SplitParts(s, cur) ==
    IF s = << >> THEN << cur >>
    ELSE IF Head(s) = "," THEN << cur >> \o SplitParts(Tail(s), << >>)
    ELSE IF StartsWith(s, << "a", "n", "d" >>)
    THEN << cur >> \o SplitParts(SubSeq(s, 4, Len(s)), << >>)
    ELSE SplitParts(Tail(s), Append(cur, Head(s)))

\* the loop over redact_chunks: the stripped non-blank parts of every chunk
RECURSIVE ChunkKeywords(_)
ChunkKeywords(chunks) ==
    IF chunks = << >> THEN << >>
    ELSE TokenList(SplitParts(Head(chunks), << >>)) \o ChunkKeywords(Tail(chunks))

\* mutant: the keywords are kept with their duplicates
DedupNone(list) == list

\* list(dict.fromkeys(keywords)): the first occurrence of each keyword
RECURSIVE Dedup(_)
Dedup(list) ==
    IF list = << >> THEN << >>
    ELSE LET init == Dedup(SubSeq(list, 1, Len(list) - 1))
             last == list[Len(list)]
         IN  IF last \in Range(init) THEN init ELSE Append(init, last)

\* keywords: from the quoted substrings, else from the redact chunks
Keywords(instr) ==
    LET quoted == TokenList(FindQuoted(instr))
    IN  IF quoted # << >> THEN quoted
        ELSE ChunkKeywords(FindRedactChunks(Lower(instr)))

TriggerWords ==
    { << "r", "e", "v", "e", "n", "u", "e" >>, << "f", "i", "g", "u", "r", "e" >>,
      << "a", "m", "o", "u", "n", "t" >>, << "s", "a", "l", "e", "s" >> }

\* mutant: the amount action is added without the trigger test
MentionsTriggerAlways(instr) == TRUE

MentionsTrigger(instr) ==
    \E token \in TriggerWords : Occurs(token, Lower(instr))

KeywordsAction(tokens) ==
    [id |-> "replace-keywords", type |-> "replace", mode |-> "keyword", text |-> << >>,
     tokens |-> tokens, pattern |-> << >>, replacement |-> Repl(REDACTED),
     scope |-> NoScope, metadata |-> "none"]

NumbersAction ==
    [id |-> "replace-numbers", type |-> "replace", mode |-> "regex", text |-> << >>,
     tokens |-> << >>, pattern |-> AmountPattern, replacement |-> Repl(AMOUNT),
     scope |-> NoScope, metadata |-> "none"]

InterpretInstructions(instr) ==
    IF Strip(instr) = << >> THEN << >>
    ELSE LET dedup_keywords == Dedup(Keywords(instr))
         IN  (IF dedup_keywords # << >> THEN << KeywordsAction(dedup_keywords) >> ELSE << >>)
             \o (IF MentionsTrigger(instr) THEN << NumbersAction >> ELSE << >>)

\* the instruction strings: up to MaxPieces pieces, one behind the other
Pieces ==
    { << "\"" >>, << "\"", "a", "\"" >>, << "\\" >>, << " " >>, << "a" >>,
      << "," >>, << "." >>, << "a", "n", "d" >>,
      << "R", "e", "d", "a", "c", "t", " " >>, << "s", "A", "l", "E", "s" >>,
      << "f", "i", "g", "u", "r", "e" >> }

RECURSIVE Concat(_)
Concat(list) == IF list = << >> THEN << >> ELSE Head(list) \o Concat(Tail(list))

InstructionStrings == { Concat(q) : q \in SeqsUpTo(Pieces, MaxPieces) }

InitInterpret ==
    /\ WalkerIdle
    /\ ScopeIdle
    /\ ApplyIdle
    /\ ExtractIdle
    /\ ConvertIdle
    /\ instructions \in InstructionStrings
    /\ deck_id = ""
    /\ client_ok = TRUE
    /\ meta = NoMeta
    /\ title = << >>
    /\ rule_id = ""
    /\ persisted = << >>
    /\ inserted_rows = 0
    /\ response = NoResponse
    /\ pc = "interpret_call"

\* actions = interpret_instructions(instructions)
CallInterpretInstructions ==
    /\ pc = "interpret_call"
    /\ actions' = InterpretInstructions(instructions)
    /\ pc' = "interpret_done"
    /\ UNCHANGED << deck, ordered, si, ei, pi, ai, slide_no, new_text, changed,
                    applied_meta, results, evalLog, visited, run, variant, first,
                    ScopeVars, ApplyVars, ExtractVars, ConvertVars, ProcessVars >>

\* the decks an empty derived list is tried on
InterpretDecks == { << >>, KindsDeck(3, 0) }

\* the derived list is empty and is handed to generate_rule_actions with a deck
PassEmptyList ==
    /\ pc = "interpret_done"
    /\ actions = << >>
    /\ deck' \in InterpretDecks
    /\ pc' = "start"
    /\ UNCHANGED << actions, ordered, si, ei, pi, ai, slide_no, new_text, changed,
                    applied_meta, results, evalLog, visited, run, variant, first,
                    ScopeVars, ApplyVars, ExtractVars, ConvertVars, ProcessVars >>

SpecInterpret ==
    InitInterpret /\ [][CallInterpretInstructions \/ PassEmptyList \/ ReturnEmpty]_vars

-----------------------------------------------------------------------------
(* process_redaction: extract_deck_samples, the classification            *)
(* (call_responses_api, then convert_llm_response_to_actions) or, when it  *)
(* fails, interpret_instructions; then generate_rule_actions,              *)
(* generate_rule_title, insert_rule and insert_rule_actions.  What the     *)
(* classifier, the title model and the database answer is chosen freely.   *)

WalkerRest == << deck, ordered, si, ei, pi, ai, slide_no, new_text, changed,
                 applied_meta, results, evalLog, visited, run, variant, first >>

\* the meta call_responses_api returns
LlmMeta ==
    [source |-> "llm_entity_extraction", error |-> "", samplesProvided |-> Len(samples)]

\* the meta of the except clause; error stands for str(ex)
FallbackMeta(error) ==
    [source |-> "fallback_heuristic", error |-> error, samplesProvided |-> 0]

\* the except clause: actions = interpret_instructions(instructions)
FallbackActions(instr) == InterpretInstructions(instr)

FallbackTo(error) ==
    /\ actions' = FallbackActions(instructions)
    /\ meta' = FallbackMeta(error)
    /\ pc' = "start"
    /\ UNCHANGED << WalkerRest, ScopeVars, ApplyVars, ExtractVars, ConvertVars,
                    instructions, deck_id, client_ok, title, rule_id, persisted,
                    inserted_rows, response >>

\* the ways the classification fails before an item is converted:
\* get_openai_client raises, responses.create raises, the output is no JSON,
\* or it is JSON but no object (llm_result.get raises)
ClassifierErrors ==
    IF client_ok THEN { "create raised", "invalid JSON", "no object" }
    ELSE { "OPENAI_API_KEY is not set" }

CallResponsesApiFails ==
    /\ pc = "extract_done"
    /\ \E error \in ClassifierErrors : FallbackTo(error)

\* the rewrites that cite a paragraph of the lookup, with a new text or with
\* the text "cd"
CitingRewrites(lookup, texts) ==
    { Rewrite([isStr |-> TRUE, id |-> lookup[k].paragraph_id], NoRepl, Repl(t), Pct(90)) :
        k \in DOMAIN lookup, t \in texts }

LlmResult(entities, rewrites, patterns) ==
    [entity_redactions |-> entities, paragraph_rewrites |-> rewrites, patterns |-> patterns]

\* the objects the classifier may answer with
ProcessLlmResults(lookup) ==
    LET entity == Entity(TRUE, << "c" >>, NoRepl, Pct(90))
        pattern == Pattern(TRUE, << "d" >>, Repl(<< "Y" >>), Pct(85))
    IN  { LlmResult(<< >>, << >>, << >>),
          LlmResult(<< entity >>, << >>, << >>),
          LlmResult(<< >>, << >>, << pattern >>),
          LlmResult(<< Entity(TRUE, << "c" >>, NoRepl, NoneV) >>, << >>, << >>) }
        \cup { LlmResult(<< >>, << rw >>, << >>) :
                 rw \in CitingRewrites(lookup, { << "X" >>, T_cd }) }
        \cup { LlmResult(<< entity >>, << rw >>, << pattern >>) :
                 rw \in CitingRewrites(lookup, { << "X" >> }) }

\* call_responses_api returns the parsed object
CallResponsesApi ==
    /\ pc = "extract_done"
    /\ client_ok
    /\ llm_result' \in ProcessLlmResults(paragraph_lookup)
    /\ converted' = << >>
    /\ ci' = 1
    /\ convLog' = << >>
    /\ pc' = "convert_entities"
    /\ UNCHANGED << WalkerVars, ScopeVars, ApplyVars, ExtractVars, ProcessVars >>

\* the try block ends: meta = llm_meta
UseConverted ==
    /\ pc = "convert_done"
    /\ actions' = converted
    /\ meta' = LlmMeta
    /\ pc' = "start"
    /\ UNCHANGED << WalkerRest, ScopeVars, ApplyVars, ExtractVars, ConvertVars,
                    instructions, deck_id, client_ok, title, rule_id, persisted,
                    inserted_rows, response >>

\* convert_llm_response_to_actions raised on an item
ConvertFails ==
    /\ pc = "convert_raised"
    /\ FallbackTo("item raised")

\* generate_rule_actions(deck, actions); no action of this caller has a null mode
GenerateRuleActions ==
    \/ ReturnEmpty \/ SortActions
    \/ NextSlide \/ NextElement \/ NextParagraph
    \/ EvalAction \/ ActionsDone \/ FinishParagraph

UntitledRule ==
    << "U", "n", "t", "i", "t", "l", "e", "d", " ", "r", "u", "l", "e" >>

\* summary[:120]
TitleOfSummary(summary) ==
    SubSeq(summary, 1, IF Len(summary) < 120 THEN Len(summary) ELSE 120)

\* the instruction text, cut to 117 characters and "..." beyond 120
TitleOfInstructions(instruction_text) ==
    IF Len(instruction_text) > 120
    THEN SubSeq(instruction_text, 1, 117) \o << ".", ".", "." >>
    ELSE instruction_text

\* what response.output_text may be
SummaryTexts == { << "T", " " >>, << " " >> }

\* `client = get_openai_client()` is reached: the instruction is not blank
TitleNeedsClient(instruction_text) == instruction_text # << >>

GenerateRuleTitle ==
    /\ pc = "done"
    /\ LET instruction_text == Strip(instructions)
       IN  IF instruction_text = << >>
           THEN title' = UntitledRule /\ pc' = "insert_rule"
           ELSE IF TitleNeedsClient(instruction_text) /\ ~ client_ok
           THEN pc' = "process_raised" /\ UNCHANGED title
           ELSE /\ pc' = "insert_rule"
                /\ \/ \E text \in SummaryTexts :
                        title' = IF Strip(text) # << >> THEN TitleOfSummary(Strip(text))
                                 ELSE TitleOfInstructions(instruction_text)
                   \/ title' = TitleOfInstructions(instruction_text)
    /\ UNCHANGED << WalkerVars, ScopeVars, ApplyVars, ExtractVars, ConvertVars,
                    instructions, deck_id, client_ok, meta, rule_id, persisted,
                    inserted_rows, response >>

RuleIds == { "rule-1", "rule-2" }

\* a request posted to the database and what came of it
Request(table, rows, answer) == [table |-> table, rows |-> rows, answer |-> answer]

\* insert_rule: the configuration is missing; or the row is posted and the
\* post raises, the database refuses it, answers without an id, or answers
\* with the new id
InsertRule ==
    /\ pc = "insert_rule"
    /\ LET payload == << [deck_id |-> deck_id, title |-> title,
                          user_query |-> instructions] >>
       IN  \/ /\ pc' = "process_raised"
              /\ UNCHANGED << rule_id, persisted >>
           \/ \E answer \in { "post raised", "refused", "no id" } :
                /\ persisted' = Append(persisted, Request("rules", payload, answer))
                /\ pc' = "process_raised"
                /\ UNCHANGED rule_id
           \/ \E id \in RuleIds :
                /\ persisted' = Append(persisted, Request("rules", payload, id))
                /\ rule_id' = id
                /\ pc' = "rows"
    /\ UNCHANGED << WalkerVars, ScopeVars, ApplyVars, ExtractVars, ConvertVars,
                    instructions, deck_id, client_ok, meta, title, inserted_rows,
                    response >>

\* mutant: the rows are posted without the rule id
SessionRowNoRule(row, rule, d) ==
    [slide_no |-> row.slide_no, element_key |-> row.element_key, bbox |-> row.bbox,
     original_text |-> row.original_text, new_text |-> row.new_text,
     metadata |-> row.metadata, rule_id |-> "", deck_id |-> d]

\* row["rule_id"] = rule_id; row["deck_id"] = deck_id
SessionRow(row, rule, d) ==
    [slide_no |-> row.slide_no, element_key |-> row.element_key, bbox |-> row.bbox,
     original_text |-> row.original_text, new_text |-> row.new_text,
     metadata |-> row.metadata, rule_id |-> rule, deck_id |-> d]

\* `if generated_actions:` holds: the rows get their ids (the result maps
\* themselves are written to) and insert_rule_actions posts them; the post
\* raises, is refused, or is accepted
InsertRuleActions ==
    /\ pc = "rows"
    /\ results # << >>
    /\ LET session_rows == [k \in DOMAIN results |-> SessionRow(results[k], rule_id, deck_id)]
       IN  /\ results' = session_rows
           /\ \/ \E answer \in { "post raised", "refused" } :
                   /\ persisted' = Append(persisted,
                                          Request("rule_actions", session_rows, answer))
                   /\ pc' = "process_raised"
                   /\ UNCHANGED inserted_rows
              \/ /\ persisted' = Append(persisted,
                                        Request("rule_actions", session_rows, "ok"))
                 /\ inserted_rows' = Len(session_rows)
                 /\ pc' = "return"
    /\ UNCHANGED << deck, actions, ordered, si, ei, pi, ai, slide_no, new_text, changed,
                    applied_meta, evalLog, visited, run, variant, first, ScopeVars,
                    ApplyVars, ExtractVars, ConvertVars, instructions, deck_id,
                    client_ok, meta, title, rule_id, response >>

\* `if generated_actions:` fails: inserted_rows stays 0
NoRuleActions ==
    /\ pc = "rows"
    /\ results = << >>
    /\ pc' = "return"
    /\ UNCHANGED << WalkerVars, ScopeVars, ApplyVars, ExtractVars, ConvertVars,
                    ProcessVars >>

Return ==
    /\ pc = "return"
    /\ response' = [deckId |-> deck_id, ruleId |-> rule_id, actionCount |-> inserted_rows,
                    meta |-> meta]
    /\ pc' = "returned"
    /\ UNCHANGED << WalkerVars, ScopeVars, ApplyVars, ExtractVars, ConvertVars,
                    instructions, deck_id, client_ok, meta, title, rule_id, persisted,
                    inserted_rows >>

ProcessRedaction ==
    \/ ExtractDeckSamples
    \/ CallResponsesApi \/ CallResponsesApiFails
    \/ ConvertLlmResponseToActions
    \/ UseConverted \/ ConvertFails
    \/ GenerateRuleActions
    \/ GenerateRuleTitle
    \/ InsertRule
    \/ InsertRuleActions \/ NoRuleActions
    \/ Return

T_amount == << "$", "5" >>

\* two slides: "cd" is on the first, and twice on the second
TwoSlides(i1, i2) ==
    << Slide(i1, << Element("textbox", "k1", "b1", << T_cd, T_amount >>) >>),
       Slide(i2, << Element("textbox", "k2", "b2", << T_cd, T_cCc >>),
                    Element("textbox", "k3", "b3", << T_cd >>) >>) >>

ProcessDecks ==
    { << >>,
      \* the index fields are the positions
      TwoSlides(IntV(0), IntV(1)),
      \* the index fields are not the positions
      TwoSlides(IntV(1), IntV(0)),
      \* more than five slides
      KindsDeck(6, 0) }

ProcessInstructions ==
    { << >>,
      << " " >>,
      << "a", "." >>,
      << "\"", "c", "\"" >>,
      << "R", "e", "d", "a", "c", "t", " ", "d", ",", "s", "a", "l", "e", "s" >> }

DeckIds == { "deck-1", "deck-2" }

InitProcess ==
    /\ \E d \in ProcessDecks : WalkerIdleWith(d)
    /\ ScopeIdle
    /\ ApplyIdle
    /\ ExtractIdle
    /\ ConvertIdle
    /\ instructions \in ProcessInstructions
    /\ deck_id \in DeckIds
    /\ client_ok \in BOOLEAN
    /\ meta = NoMeta
    /\ title = << >>
    /\ rule_id = ""
    /\ persisted = << >>
    /\ inserted_rows = 0
    /\ response = NoResponse
    /\ pc = "extract_start"

SpecProcess == InitProcess /\ [][ProcessRedaction]_vars

-----------------------------------------------------------------------------
(* Vocabulary of the properties *)

\* the paragraphs whose evaluation has finished in the current call
Finished == { visited[k] : k \in DOMAIN visited }

IsExact(action) == action.mode \in { "exact", "EXACT" }

\* an exact action whose trimmed target is the trimmed text, in scope on slide n
ExactTargets(action, text, n) ==
    /\ IsExact(action)
    /\ Strip(action.text) = Strip(text)
    /\ SlideInScope(action.scope, n)

\* the entries of a log that changed the text
Changers(log) == { k \in DOMAIN log : log[k].changed }

\* the paragraph v went to the replacement of action i, nothing else touched it
OnlyChangedBy(v, i) ==
    /\ v.final = EffectiveReplacement(actions[i])
    /\ \A k \in Changers(v.log) : v.log[k].idx = i
    /\ Cardinality(Changers(v.log)) = 1

\* the first action of the list, in input order, that satisfies P
FirstIndex(P(_)) == CHOOSE i \in DOMAIN actions : P(i) /\ \A j \in 1 .. i - 1 : ~ P(j)

\* a regex or keyword action of the list, in scope on slide n, matches the text
OtherMatches(text, n) ==
    \E j \in DOMAIN actions :
        /\ ~ IsExact(actions[j])
        /\ ~ PriorityRaises(actions[j])
        /\ SlideInScope(actions[j].scope, n)
        /\ ApplyTextAction(text, actions[j]).changed

\* C1 as stated: a paragraph for which the list holds an in-scope exact action
\* whose trimmed target equals the trimmed paragraph text, and a regex or
\* keyword action that matches it too, ends as the replacement of the first
\* such exact action, changed by that action only.
C1_ExactWinsAnyTarget ==
    \A v \in Finished :
        LET Hit(i) == ExactTargets(actions[i], v.original, v.slide_no)
        IN  (\E i \in DOMAIN actions : Hit(i)) /\ OtherMatches(v.original, v.slide_no)
              => OnlyChangedBy(v, FirstIndex(Hit))

\* C1 as amended: the same for exact actions whose target text is not empty
\* (checked whether or not another action matches the paragraph).
C1_ExactWins ==
    \A v \in Finished :
        LET Hit(i) == /\ ExactTargets(actions[i], v.original, v.slide_no)
                      /\ actions[i].text # << >>
        IN  (\E i \in DOMAIN actions : Hit(i)) => OnlyChangedBy(v, FirstIndex(Hit))

\* C1 witness: an exact action won on a paragraph that a regex or keyword
\* action of the list, placed before it by the caller, would have changed.
C1_Witness ==
    \E v \in Finished :
        \E i, j \in DOMAIN actions :
            /\ j < i
            /\ ExactTargets(actions[i], v.original, v.slide_no)
            /\ actions[i].text # << >>
            /\ ~ IsExact(actions[j])
            /\ SlideInScope(actions[j].scope, v.slide_no)
            /\ ApplyTextAction(v.original, actions[j]).changed
            /\ v.final = EffectiveReplacement(actions[i])
            /\ v.emitted

\* ordered is the input list sorted stably on the priority
StablySorted(ord, acts) ==
    /\ Len(ord) = Len(acts)
    /\ Range(ord) = DOMAIN acts
    /\ \A j, k \in DOMAIN ord :
          j < k =>
            \/ ActionPriority(acts[ord[j]]) < ActionPriority(acts[ord[k]])
            \/ /\ ActionPriority(acts[ord[j]]) = ActionPriority(acts[ord[k]])
               /\ ord[j] < ord[k]

\* the k-th action a paragraph meets is the k-th of ordered
FollowsOrder(log) == \A k \in DOMAIN log : k <= Len(ordered) /\ log[k].idx = ordered[k]

\* C2: once the walk has started, ordered_actions is the stable sort of the
\* input list on exact = 0, regex = 1, other = 2, and every paragraph meets
\* the actions in that order.
C2_StableOrder ==
    pc \in { "slides", "elements", "paragraphs", "actions", "emit", "done" }
      /\ actions # << >>
    =>  /\ StablySorted(ordered, actions)
        /\ FollowsOrder(evalLog)
        /\ \A v \in Finished : FollowsOrder(v.log)

\* C2 witness: the sort moved an exact action in front of an earlier action
\* and a paragraph met both, the exact one first.
C2_Witness ==
    /\ pc = "emit"
    /\ Len(evalLog) = 2
    /\ evalLog[1].idx = 2 /\ evalLog[2].idx = 1
    /\ IsExact(actions[2])

\* the fold of the in-scope actions over a text, ended by an exact success
RECURSIVE FoldActions(_, _, _)
FoldActions(text, ord, n) ==
    IF ord = << >> THEN text
    ELSE LET action == actions[Head(ord)]
             r == ApplyTextAction(text, action)
         IN  IF ~ SlideInScope(action.scope, n) THEN FoldActions(text, Tail(ord), n)
             ELSE IF ~ r.changed THEN FoldActions(text, Tail(ord), n)
             ELSE IF SortMode(action) = "exact" THEN r.text
             ELSE FoldActions(r.text, Tail(ord), n)

\* C3: the final text of a paragraph is the left-to-right fold of the
\* in-scope actions, each applied to the text as the earlier ones left it, and
\* the evaluation stops early only behind an exact action that changed it.
C3_Fold ==
    \A v \in Finished :
        /\ v.final = FoldActions(v.original, ordered, v.slide_no)
        /\ \A k \in DOMAIN v.log :
              v.log[k].before =
                  FoldActions(v.original, SubSeq(ordered, 1, k - 1), v.slide_no)
        /\ Len(v.log) < Len(ordered) =>
              /\ v.log # << >>
              /\ v.log[Len(v.log)].changed
              /\ SortMode(actions[v.log[Len(v.log)].idx]) = "exact"

\* C3 witness: a regex or keyword action changed a paragraph and a later
\* action changed the altered text again.
C3_Witness ==
    \E v \in Finished :
        \E j, k \in Changers(v.log) :
            /\ j < k
            /\ v.log[k].before # v.original
            /\ v.final # v.log[k].before

\* the finished paragraphs whose final text differs from their text in the deck
RECURSIVE Edited(_)
Edited(vis) ==
    IF vis = << >> THEN << >>
    ELSE IF Head(vis).final # first.deck[Head(vis).si].elements[Head(vis).ei].paragraphs[Head(vis).pi]
    THEN << Head(vis) >> \o Edited(Tail(vis))
    ELSE Edited(Tail(vis))

\* C4: the results are, in order, one per finished paragraph whose final text
\* differs from its text in the deck, and none for the others; each carries
\* the deck's text as original_text and a different new_text.
C4_EmitIffDiffers ==
    run = 1 /\ pc \in { "paragraphs", "elements", "slides", "done" } =>
        LET edited == Edited(visited)
        IN  /\ Len(results) = Len(edited)
            /\ \A k \in DOMAIN results :
                  /\ results[k].original_text =
                        first.deck[edited[k].si].elements[edited[k].ei].paragraphs[edited[k].pi]
                  /\ results[k].new_text = edited[k].final
                  /\ results[k].new_text # results[k].original_text

\* C4 witness: successive actions changed a paragraph and restored its text,
\* and it has no result, while another paragraph has one.
C4_Witness ==
    /\ run = 1 /\ pc = "done"
    /\ results # << >>
    /\ \E v \in Finished :
          /\ Cardinality(Changers(v.log)) = 2
          /\ v.final = v.original
          /\ ~ v.emitted

\* the integers a slide list holds
ListNumbers(list) == { Coerce(list[i]) : i \in { j \in DOMAIN list : CoerceOK(list[j]) } }

HasSlideList(scope) == scope.kind = "slides" /\ scope.isList /\ scope.list # << >>

\* C5 as stated: an action scoped to a slide list changes no paragraph of a
\* slide whose number is not in the list.
C5_ListScopeAnyList ==
    \A v \in Finished :
        \A k \in Changers(v.log) :
            HasSlideList(actions[v.log[k].idx].scope)
              => v.slide_no \in ListNumbers(actions[v.log[k].idx].scope.list)

\* C5 as amended: the same, for a slide list with at least one entry that
\* coerces to an integer.
C5_ListScope ==
    \A v \in Finished :
        \A k \in Changers(v.log) :
            LET scope == actions[v.log[k].idx].scope
            IN  HasSlideList(scope) /\ ListNumbers(scope.list) # { }
                  => v.slide_no \in ListNumbers(scope.list)

\* C5 witness: an action with a slide list edited a paragraph on a listed
\* slide and left the identical text on an unlisted slide alone.
C5_Witness ==
    \E v, w \in Finished :
        \E i \in DOMAIN actions :
            /\ HasSlideList(actions[i].scope)
            /\ ListNumbers(actions[i].scope.list) # { }
            /\ v.original = w.original
            /\ v.slide_no \in ListNumbers(actions[i].scope.list)
            /\ w.slide_no \notin ListNumbers(actions[i].scope.list)
            /\ \E k \in Changers(v.log) : v.log[k].idx = i
            /\ v.emitted
            /\ ApplyTextAction(w.original, actions[i]).changed
            /\ ~ w.emitted

\* the second call has returned or raised
SecondEnded(v) == run = 2 /\ variant = v /\ pc \in { "done", "raised" }

\* the second call ended as the first did: both raised, or both returned the
\* same list of results
SameOutcome == pc = first.pc /\ (pc = "done" => results = first.results)

Contains(token, text) ==
    \E k \in 0 .. Len(text) :
        /\ k + Len(token) <= Len(text)
        /\ \A i \in DOMAIN token : LowerChar(text[k + i]) = LowerChar(token[i])

\* the content an action matches: its non-blank tokens, or its trimmed target
MatchedContent(action) ==
    IF IsExact(action) THEN { Strip(action.text) }
    ELSE Range(TokenList(action.tokens))

AllExactOrKeyword == \A i \in DOMAIN actions : actions[i].mode \in { "exact", "EXACT", "keyword" }

\* no replacement of the action set contains content an action of the set matches
ReplacementsFree ==
    \A i, j \in DOMAIN actions :
        \A m \in MatchedContent(actions[j]) :
            ~ Contains(m, EffectiveReplacement(actions[i]))

\* no new_text of the first call holds a token of a keyword action, or is
\* after trimming the non-empty target of an exact action, in scope on its slide
OutputsFree ==
    \A k \in DOMAIN first.visited :
        LET v == first.visited[k]
        IN  v.emitted =>
              \A i \in DOMAIN actions :
                  SlideInScope(actions[i].scope, v.slide_no) =>
                      IF IsExact(actions[i])
                      THEN actions[i].text = << >> \/ Strip(v.final) # Strip(actions[i].text)
                      ELSE \A tok \in Range(TokenList(actions[i].tokens)) :
                               ~ Contains(tok, v.final)

\* C7 as stated: with exact and keyword actions whose replacements contain
\* none of the matched content, a second call on the deck with the first
\* call's edits applied returns no results.
C7_IdempotentByReplacement ==
    SecondEnded("output") /\ AllExactOrKeyword /\ ReplacementsFree
      => pc = "done" /\ results = << >>

\* C7 as amended: with exact and keyword actions, the second call returns no
\* results provided no new_text of the first call contains a token of a
\* keyword action, or is after trimming the non-empty target of an exact
\* action, that is in scope on its slide.
C7_Idempotent ==
    SecondEnded("output") /\ AllExactOrKeyword /\ OutputsFree
      => pc = "done" /\ results = << >>

\* C7 witness: the first call edited a paragraph, the edits were applied, and
\* the second call returned nothing.
C7_Witness ==
    /\ SecondEnded("output")
    /\ AllExactOrKeyword
    /\ OutputsFree
    /\ first.results # << >>
    /\ \E i \in DOMAIN actions : ~ IsExact(actions[i])
    /\ results = << >>

\* C8: a call without an action whose regex does not compile ends as the call
\* with it did: the same results, and an exception only if there was one.
C8_InvalidRegexIgnored == SecondEnded("removed") => SameOutcome

\* C8 witness: the list held an action that does not compile and another
\* that edited a paragraph; with and without the former the results agree.
C8_Witness ==
    /\ SecondEnded("removed")
    /\ pc = "done"
    /\ results # << >>
    /\ results = first.results
    /\ Len(first.actions) = Len(actions) + 1

\* C9: generate_rule_actions never raises.
C9_NeverRaises == pc # "raised"

\* C10 as stated: with a non-empty slide list, slide_in_scope is true iff the
\* slide number is among the entries that coerce to integers, whatever from
\* and to are.
C10_ListDecidesAnyList ==
    pc = "scope_done" /\ HasSlideList(scopeArg)
      => (scopeResult = "true" <=> slideArg \in ListNumbers(scopeArg.list))

\* C10 as amended: the same, for a slide list with at least one entry that
\* coerces to an integer.
C10_ListDecides ==
    pc = "scope_done" /\ HasSlideList(scopeArg) /\ ListNumbers(scopeArg.list) # { }
      => (scopeResult = "true" <=> slideArg \in ListNumbers(scopeArg.list))

\* C10 witness: a list with an entry that does not coerce and an entry that
\* does admits a slide that the scope's from value excludes.
C10_Witness ==
    /\ pc = "scope_done"
    /\ HasSlideList(scopeArg)
    /\ \E i \in DOMAIN scopeArg.list : ~ CoerceOK(scopeArg.list[i])
    /\ slideArg \in ListNumbers(scopeArg.list)
    /\ ~ RangeCheck(scopeArg, slideArg)
    /\ scopeResult = "true"

\* a scope in range form: a slides map without a slide list, in which from
\* and to are integers or missing, and not both are missing
RangeForm(scope) ==
    /\ scope.kind = "slides"
    /\ ~ HasSlideList(scope)
    /\ scope.from.t \in { "int", "str", "none" }
    /\ scope.to.t \in { "int", "str", "none" }
    /\ scope.from.t # "none" \/ scope.to.t # "none"

\* C11: for a scope in range form slide_in_scope(scope, n) is true iff
\* from' <= n <= to', where from' is from, or 1 when from is missing, and to'
\* is to, or n when to is missing.
C11_RangeForm ==
    pc = "scope_done" /\ RangeForm(scopeArg)
      => LET lower == IF scopeArg.from.t = "none" THEN 1 ELSE scopeArg.from.v
             upper == IF scopeArg.to.t = "none" THEN slideArg ELSE scopeArg.to.v
         IN  scopeResult = "true" <=> (lower <= slideArg /\ slideArg <= upper)

\* C11 witness: a scope with only to = 2 excludes slide 3.
C11_Witness ==
    /\ pc = "scope_done"
    /\ RangeForm(scopeArg)
    /\ scopeArg.from.t = "none"
    /\ scopeArg.to.t = "int"
    /\ slideArg > scopeArg.to.v
    /\ scopeResult = "false"

\* a malformed scope: absent or no map, a slides entry that is absent or no
\* map, or list entries and from and to values none of which coerces
Malformed(scope) ==
    \/ scope.kind \in { "absent", "notdict", "noslides" }
    \/ /\ scope.kind = "slides"
       /\ \A i \in DOMAIN scope.list : ~ CoerceOK(scope.list[i])
       /\ ~ CoerceOK(scope.from)
       /\ ~ CoerceOK(scope.to)

\* C12: for a malformed scope slide_in_scope returns true for every slide
\* number (the call has no other outcome: it never raises).
C12_MalformedUnrestricted ==
    pc = "scope_done" /\ Malformed(scopeArg) => scopeResult = "true"

\* C12 witness: a slide list whose only entry does not coerce, with from and
\* to values that do not coerce either, admits the last slide.
C12_Witness ==
    /\ pc = "scope_done"
    /\ HasSlideList(scopeArg)
    /\ \A i \in DOMAIN scopeArg.list : scopeArg.list[i].t = "bad"
    /\ scopeArg.from.t = "bad"
    /\ scopeArg.to.t = "bad"
    /\ slideArg = MaxSlideNo
    /\ scopeResult = "true"

\* C13: in exact mode apply_text_action returns the replacement with changed
\* = true if the target text is not empty and equals the text after trimming
\* both, and otherwise the text as it was with changed = false.
C13_ExactAllOrNothing ==
    pc \in { "apply_done", "apply_raised" } /\ ApplyMode(applyAction) = "exact"
      => LET hit == /\ applyAction.text # << >>
                    /\ Strip(applyAction.text) = Strip(applyText)
         IN  /\ pc = "apply_done"
             /\ applyResult.changed = hit
             /\ applyResult.text =
                    IF hit THEN EffectiveReplacement(applyAction) ELSE applyText

\* C13 witness: a target that equals the text only after trimming replaced
\* the whole paragraph by the replacement.
C13_Witness ==
    /\ pc = "apply_done"
    /\ ApplyMode(applyAction) = "exact"
    /\ applyAction.text # applyText
    /\ Strip(applyAction.text) = Strip(applyText)
    /\ applyAction.replacement = Repl(<< "X" >>)
    /\ applyResult.changed
    /\ applyResult.text = << "X" >>

\* the replacement the spec names: the marker for an absent, non-string or
\* blank replacement, and otherwise the replacement as given
MarkerOrGiven(action) ==
    IF action.replacement.isStr /\ Strip(action.replacement.s) # << >>
    THEN action.replacement.s
    ELSE REDACTED

\* the tokens in list order, each replaced wherever it occurs in the running
\* text by the string r itself
RECURSIVE LiteralKeyword(_, _, _)
LiteralKeyword(acc, token_list, r) ==
    IF token_list = << >> THEN acc
    ELSE IF Search(Head(token_list), acc.text, TRUE)
    THEN LiteralKeyword([text |-> SubAll(Head(token_list), r, acc.text, TRUE),
                         changed |-> TRUE], Tail(token_list), r)
    ELSE LiteralKeyword(acc, Tail(token_list), r)

\* the text after the action's substitutions when each inserts the string r
\* itself
LiteralText(text, action, r) ==
    LET mode == ApplyMode(action)
    IN  IF mode = "exact" THEN r
        ELSE IF mode = "regex" THEN SubAll(action.pattern, r, text, FALSE)
        ELSE LiteralKeyword([text |-> text, changed |-> FALSE],
                            TokenList(action.tokens), r).text

\* C14 as stated: in each mode, what a call that changed the text inserted
\* is the marker [REDACTED] when the replacement is absent, no string or
\* blank, and the replacement as given otherwise.
C14_ReplacementAsGiven ==
    pc = "apply_done" /\ applyResult.changed
      => applyResult.text = LiteralText(applyText, applyAction, MarkerOrGiven(applyAction))

\* C15 as stated: in keyword mode the non-empty trimmed tokens are taken in
\* list order, each replaced by the replacement wherever it occurs, whatever
\* its case, in the running text; changed is true iff a token occurred.
C15_KeywordFold ==
    pc \in { "apply_done", "apply_raised" } /\ ApplyMode(applyAction) = "keyword"
      => LET expected == LiteralKeyword([text |-> applyText, changed |-> FALSE],
                                        TokenList(applyAction.tokens),
                                        MarkerOrGiven(applyAction))
         IN  /\ pc = "apply_done"
             /\ applyResult.text = expected.text
             /\ applyResult.changed = expected.changed

\* the slide number the walker gives the slide at position s
SlideNoAt(s) == Coerce(deck[s].index) + 1

\* C16: every result carries the key of a textbox element of its slide that
\* holds the result's original text, and no paragraph of a table or picture
\* element was evaluated.
C16_TextboxOnly ==
    /\ \A i \in DOMAIN results :
          \E s \in DOMAIN deck :
            \E e \in DOMAIN deck[s].elements :
              /\ deck[s].elements[e].type = "textbox"
              /\ deck[s].elements[e].key = results[i].element_key
              /\ CoerceOK(deck[s].index) /\ SlideNoAt(s) = results[i].slide_no
              /\ \E p \in DOMAIN deck[s].elements[e].paragraphs :
                    deck[s].elements[e].paragraphs[p] = results[i].original_text
    /\ \A v \in Finished : deck[v.si].elements[v.ei].type = "textbox"

\* C16 witness: a table holds a paragraph that an in-scope action of the list
\* changes; the call edited the same text in a textbox of that slide and
\* returned no result with the table's key.
C16_Witness ==
    /\ pc = "done"
    /\ \E s \in DOMAIN deck :
         \E e \in DOMAIN deck[s].elements :
           LET element == deck[s].elements[e]
           IN  /\ element.type = "table"
               /\ CoerceOK(deck[s].index)
               /\ \E p \in DOMAIN element.paragraphs :
                     /\ \E a \in DOMAIN actions :
                           /\ SlideInScope(actions[a].scope, SlideNoAt(s))
                           /\ ApplyTextAction(element.paragraphs[p], actions[a]).changed
                     /\ \E i \in DOMAIN results :
                           /\ results[i].slide_no = SlideNoAt(s)
                           /\ results[i].original_text = element.paragraphs[p]
               /\ \A i \in DOMAIN results : results[i].element_key # element.key

\* the paragraph positions (slide, element, paragraph) of the textbox elements
TextboxParagraphs ==
    UNION { UNION { { << s, e, p >> : p \in DOMAIN deck[s].elements[e].paragraphs } :
                    e \in { x \in DOMAIN deck[s].elements :
                               deck[s].elements[x].type = "textbox" } } :
            s \in DOMAIN deck }

\* those the walker does not skip: the slide's index coerces to an integer,
\* the element has a key, the paragraph has text
WalkedParagraphs ==
    { t \in TextboxParagraphs :
        /\ CoerceOK(deck[t[1]].index)
        /\ deck[t[1]].elements[t[2]].key # ""
        /\ deck[t[1]].elements[t[2]].paragraphs[t[3]] # << >> }

\* the positions evaluated so far
EvaluatedPositions == { << v.si, v.ei, v.pi >> : v \in Finished }

\* position a comes before position b in document order
DocBefore(a, b) ==
    \/ a[1] < b[1]
    \/ a[1] = b[1] /\ a[2] < b[2]
    \/ a[1] = b[1] /\ a[2] = b[2] /\ a[3] < b[3]

\* the paragraphs were evaluated in document order, each once, and the
\* results are those of the emitting ones, in that order
ResultsInDocumentOrder ==
    LET emitting == SelectSeq(visited, LAMBDA v : v.emitted)
    IN  /\ \A j, k \in DOMAIN visited :
              j < k => DocBefore(<< visited[j].si, visited[j].ei, visited[j].pi >>,
                                 << visited[k].si, visited[k].ei, visited[k].pi >>)
        /\ Len(results) = Len(emitting)
        /\ \A i \in DOMAIN results :
              LET v == emitting[i]
              IN  /\ results[i].slide_no = v.slide_no
                  /\ results[i].element_key = deck[v.si].elements[v.ei].key
                  /\ results[i].original_text = v.original
                  /\ results[i].new_text = v.final

\* C17 as stated: a call that returns has evaluated every paragraph of every
\* textbox element of every slide, and its results are in document order, at
\* most one per paragraph.
C17_EveryParagraph ==
    pc = "done" /\ actions # << >>
      => EvaluatedPositions = TextboxParagraphs /\ ResultsInDocumentOrder

\* C17 as amended: the same for the paragraphs with text, of the textbox
\* elements with a key, on the slides whose index coerces to an integer.
C17_EveryWalkedParagraph ==
    pc = "done" /\ actions # << >>
      => EvaluatedPositions = WalkedParagraphs /\ ResultsInDocumentOrder

\* C17 witness: a call over a deck with a slide without index, a textbox
\* without key and slides in an order other than their numbers returned
\* results for two slides.
C17_Witness ==
    /\ pc = "done"
    /\ WalkedParagraphs # TextboxParagraphs
    /\ \E i, j \in DOMAIN results :
          i < j /\ results[i].slide_no > results[j].slide_no

\* the positions (slide position, element, paragraph) of the non-blank textbox
\* paragraphs of the slides handed to _extract_slide_summary
IndexedPositions ==
    UNION { UNION { { << q, e, i >> :
                        i \in { x \in DOMAIN deck[q + 1].elements[e].paragraphs :
                                  Strip(deck[q + 1].elements[e].paragraphs[x]) # << >> } } :
                    e \in { x \in DOMAIN deck[q + 1].elements :
                              deck[q + 1].elements[x].type = "textbox" } } :
            q \in Range(summarized) }

\* the lookup entry is the reference of the paragraph at the position
RefersTo(entry, pos) ==
    LET element == deck[pos[1] + 1].elements[pos[2]]
    IN  /\ entry.slide_no = pos[1] + 1
        /\ entry.paragraph_id.slide = pos[1] + 1
        /\ entry.element_key = element.key
        /\ entry.paragraph_index = pos[3] - 1
        /\ entry.text = Strip(element.paragraphs[pos[3]])

\* the ids the samples show, in emission order
RECURSIVE SampleIds(_)
SampleIds(list) ==
    IF list = << >> THEN << >>
    ELSE [k \in DOMAIN Head(list).paragraphs |-> Head(list).paragraphs[k].id]
         \o SampleIds(Tail(list))

\* C19: the counter of the paragraph ids strictly increases in emission order
\* (so the ids are distinct), no slide is summarized twice, and the lookup
\* has exactly one entry per non-blank textbox paragraph of the summarized
\* slides.
C19_DistinctIds ==
    /\ \A j, k \in DOMAIN paragraph_lookup :
          j < k => paragraph_lookup[j].paragraph_id.counter
                     < paragraph_lookup[k].paragraph_id.counter
    /\ SampleIds(samples) = [k \in DOMAIN paragraph_lookup |-> paragraph_lookup[k].paragraph_id]
    /\ \A j, k \in DOMAIN summarized : j # k => summarized[j] # summarized[k]
    /\ Len(paragraph_lookup) = Cardinality(IndexedPositions)
    /\ \A pos \in IndexedPositions :
          \E k \in DOMAIN paragraph_lookup : RefersTo(paragraph_lookup[k], pos)

\* C19 witness: two middle slides were summarized in descending position, so
\* the lookup holds a later slide's paragraph before an earlier slide's.
C19_Witness ==
    /\ pc = "extract_done"
    /\ Len(deck) > 5
    /\ \E j, k \in DOMAIN paragraph_lookup :
          /\ j < k
          /\ paragraph_lookup[j].slide_no > paragraph_lookup[k].slide_no
          /\ paragraph_lookup[j].text = paragraph_lookup[k].text

\* the slide at position q has text to sample
HasText(q) == SlideItems(deck[q + 1].elements) # << >>

\* C20: every slide of a deck of at most 5 slides is summarized; of a deck of
\* n > 5 slides the positions 0, 1, 2, a set M of max(1, floor(0.2 * (n - 4)))
\* positions out of 3 .. n-2, and n-1.  The samples are those of the
\* summarized slides that have text, in the order summarized.
C20_SampledPositions ==
    pc = "extract_done"
      => LET n == Len(deck)
             P == Range(summarized)
             M == P \ { 0, 1, 2, n - 1 }
             floor == ((n - 4) * 2) \div 10
             withText == SelectSeq(summarized, HasText)
         IN  /\ n <= 5 => P = 0 .. n - 1
             /\ n > 5 => /\ { 0, 1, 2, n - 1 } \subseteq P
                         /\ M \subseteq 3 .. n - 2
                         /\ Cardinality(M) = IF floor > 1 THEN floor ELSE 1
             /\ Len(samples) = Len(withText)
             /\ \A k \in DOMAIN samples : samples[k].slide_no = withText[k] + 1

\* C20 witness: a deck long enough for two middle slides, both summarized.
C20_Witness ==
    /\ pc = "extract_done"
    /\ Len(deck) = MaxSlides
    /\ Len(sampled_indices) = 2
    /\ Cardinality(Range(summarized)) = 6
    /\ \E k \in DOMAIN summarized : ~ HasText(summarized[k])

\* the rewrite cites no id the lookup knows
NoKnownId(rewrite) ==
    ~ rewrite.paragraph_id.isStr
    \/ \A k \in DOMAIN paragraph_lookup :
          paragraph_lookup[k].paragraph_id # rewrite.paragraph_id.id

\* the rewrite supplies raw original_text
HasRawText(rewrite) ==
    rewrite.original_text.isStr /\ Strip(rewrite.original_text.s) # << >>

\* the indexed paragraphs that have the rewrite's trimmed text
IndexedWithText(rewrite) ==
    { k \in DOMAIN paragraph_lookup :
        paragraph_lookup[k].text = Strip(rewrite.original_text.s) }

\* the log entry's rewrite gave an exact action aimed at the one indexed
\* paragraph with its text, or none while there is not exactly one
ResolvedByText(entry) ==
    LET rewrite == llm_result.paragraph_rewrites[entry.index]
        hits == IndexedWithText(rewrite)
    IN  /\ entry.produced <=> Cardinality(hits) = 1
        /\ entry.produced =>
              LET info == paragraph_lookup[CHOOSE k \in hits : TRUE]
                  made == converted[entry.at]
              IN  /\ made.mode = "exact"
                  /\ made.text = info.text
                  /\ made.scope = ListScope(<< IntV(info.slide_no) >>)
                  /\ made.metadata.paragraph_id = info.paragraph_id

\* every item of the response was handled, and each entity redaction and
\* pattern of sufficient confidence gave an action
OthersConverted ==
    /\ Len(convLog) = Len(llm_result.entity_redactions)
                        + Len(llm_result.paragraph_rewrites) + Len(llm_result.patterns)
    /\ \A j \in DOMAIN convLog :
          convLog[j].list # "paragraph_rewrites"
            => (convLog[j].produced
                  <=> ~ LowConfidence(llm_result[convLog[j].list][convLog[j].index]))
    /\ Len(converted) = Cardinality({ j \in DOMAIN convLog : convLog[j].produced })

RawTextEntries ==
    { j \in DOMAIN convLog :
        /\ convLog[j].list = "paragraph_rewrites"
        /\ NoKnownId(llm_result.paragraph_rewrites[convLog[j].index])
        /\ HasRawText(llm_result.paragraph_rewrites[convLog[j].index]) }

\* the rewrite passes the tests that do not concern its target: confidence
\* at least 0.85 and a rewritten_text that is a non-blank string
Usable(rewrite) ==
    /\ ~ LowConfidence(rewrite)
    /\ rewrite.rewritten_text.isStr
    /\ Strip(rewrite.rewritten_text.s) # << >>

\* C18 as stated: a rewrite without a known paragraph_id that supplies raw
\* original_text yields an exact action iff exactly one indexed paragraph has
\* that trimmed text; the other items of the response are still converted.
C18_RawTextIffUnique ==
    pc = "convert_done"
      => /\ \A j \in RawTextEntries : ResolvedByText(convLog[j])
         /\ OthersConverted

\* C18 as amended: the same for the rewrites of confidence at least 0.85
\* whose rewritten_text is a non-blank string; the others yield no action.
C18_UsableRawTextIffUnique ==
    pc = "convert_done"
      => /\ \A j \in RawTextEntries :
               IF Usable(llm_result.paragraph_rewrites[convLog[j].index])
               THEN ResolvedByText(convLog[j])
               ELSE ~ convLog[j].produced
         /\ OthersConverted

\* C18 witness: a response with a rewrite whose text several indexed
\* paragraphs have, which gave no action, a rewrite whose text one has, which
\* gave one, and a pattern converted after them.
C18_Witness ==
    /\ pc = "convert_done"
    /\ \E i, j \in RawTextEntries :
          LET ri == llm_result.paragraph_rewrites[convLog[i].index]
              rj == llm_result.paragraph_rewrites[convLog[j].index]
          IN  /\ i < j
              /\ Usable(ri) /\ Cardinality(IndexedWithText(ri)) > 1
              /\ ~ convLog[i].produced
              /\ Usable(rj) /\ Cardinality(IndexedWithText(rj)) = 1
              /\ convLog[j].produced
    /\ \E j \in DOMAIN convLog : convLog[j].list = "patterns" /\ convLog[j].produced

-----------------------------------------------------------------------------
(* C24 *)

\* the finished paragraphs that got a result, in order
RECURSIVE Emitted(_)
Emitted(vis) ==
    IF vis = << >> THEN << >>
    ELSE IF Head(vis).emitted THEN << Head(vis) >> \o Emitted(Tail(vis))
    ELSE Emitted(Tail(vis))

\* the last entry of a log that changed the text
LastChanger(log) == CHOOSE k \in Changers(log) : \A j \in Changers(log) : j <= k

\* C24: the metadata of a result is the metadata of the last action, in sorted
\* order, that changed its paragraph; when that action carries none, the
\* result carries none, whatever the earlier changing actions carried.
C24_LastChangerMetadata ==
    pc \in { "paragraphs", "elements", "slides", "done" } =>
        LET emitted == Emitted(visited)
        IN  /\ Len(results) = Len(emitted)
            /\ \A k \in DOMAIN results :
                  /\ Changers(emitted[k].log) # { }
                  /\ results[k].metadata =
                        actions[emitted[k].log[LastChanger(emitted[k].log)].idx].metadata

\* C24 witness: a result without metadata whose paragraph was changed first by
\* an action with metadata and last by an action without.
C24_Witness ==
    /\ pc = "done"
    /\ \E k \in DOMAIN results :
          LET log == Emitted(visited)[k].log
          IN  /\ results[k].metadata = "none"
              /\ \E j \in Changers(log) :
                    /\ j < LastChanger(log)
                    /\ actions[log[j].idx].metadata # "none"

-----------------------------------------------------------------------------
(* C26 *)

\* every exact-mode entry of a log met the text original
ExactSeesOriginal(log, original) ==
    \A k \in DOMAIN log :
        ApplyMode(actions[log[k].idx]) = "exact" => log[k].before = original

\* C26: whenever an exact-mode action is evaluated against a paragraph, the
\* current text is still the paragraph's original text, whatever the order of
\* the caller's action list.
C26_ExactSeesOriginal ==
    /\ \A v \in Finished : ExactSeesOriginal(v.log, v.original)
    /\ pc \in { "actions", "emit" } =>
          ExactSeesOriginal(evalLog, deck[si].elements[ei].paragraphs[pi])

\* C26 witness: the caller put a regex or keyword action before an exact
\* action; the exact action was evaluated on the untouched paragraph, and the
\* other action changed the paragraph afterwards.
C26_Witness ==
    \E v \in Finished :
        \E j, k \in DOMAIN v.log :
            /\ j < k
            /\ v.log[k].idx < v.log[j].idx
            /\ ApplyMode(actions[v.log[j].idx]) = "exact"
            /\ v.log[j].inScope
            /\ v.log[j].before = v.original
            /\ v.log[k].changed
            /\ v.final # v.original

-----------------------------------------------------------------------------
(* C28 *)

\* C28: generate_rule_actions leaves its inputs as they were: throughout and
\* after the call the deck and the caller's action list, order included, are
\* those handed in, and every edit is an original_text / new_text pair of the
\* returned list whose original_text is still the deck's text.
C28_InputsUnchanged ==
    run = 1 =>
        /\ deck = first.deck
        /\ actions = first.actions
        /\ pc \in { "paragraphs", "elements", "slides", "done" } =>
              LET emitted == Emitted(visited)
              IN  \A k \in DOMAIN emitted :
                    /\ k \in DOMAIN results
                    /\ results[k].original_text =
                          deck[emitted[k].si].elements[emitted[k].ei].paragraphs[emitted[k].pi]
                    /\ results[k].new_text = emitted[k].final

\* C28 witness: a call that sorted a list into another order and returned an
\* edit has ended.
C28_Witness ==
    /\ run = 1 /\ pc = "done"
    /\ results # << >>
    /\ Len(ordered) = 2 /\ ordered[1] = 2
    /\ deck = first.deck
    /\ actions = first.actions

-----------------------------------------------------------------------------
(* C29 *)

\* the match mode is a string that is none of keyword, regex and exact
UnknownMode(action) ==
    /\ action.mode \notin { "missing", "null", "" }
    /\ LowerMode(action.mode) \notin { "keyword", "regex", "exact" }

\* C29: an action whose match mode is none of keyword, regex and exact is
\* rejected: apply_text_action returns the text unchanged, and in particular
\* not the text a keyword action with the same tokens would return.
C29_UnknownModeRejected ==
    pc \in { "apply_done", "apply_raised" } /\ UnknownMode(applyAction) =>
        /\ applyResult = Unchanged(applyText)

-----------------------------------------------------------------------------
(* C30 *)

\* the instruction holds a quoted substring: two quote characters
HasQuotedSubstring(instr) ==
    \E i, j \in DOMAIN instr : i < j /\ instr[i] = "\"" /\ instr[j] = "\""

\* the trimmed non-blank contents of the quoted substrings, in order
QuotedKeywords(instr) == TokenList(FindQuoted(instr))

\* the trimmed non-blank fragments behind the word redact, in order
FragmentKeywords(instr) == ChunkKeywords(FindRedactChunks(Lower(instr)))

KeywordActions == { i \in DOMAIN actions : actions[i].mode = "keyword" }
RegexActions   == { i \in DOMAIN actions : actions[i].mode = "regex" }

\* the position of the first occurrence of x in list
FirstAt(x, list) == CHOOSE i \in DOMAIN list : list[i] = x /\ \A j \in 1 .. i - 1 : list[j] # x

\* tokens is list without its repetitions, in first-occurrence order
FirstOccurrences(tokens, list) ==
    /\ Range(tokens) = Range(list)
    /\ \A i, j \in DOMAIN tokens :
          i < j => tokens[i] # tokens[j] /\ FirstAt(tokens[i], list) < FirstAt(tokens[j], list)

\* the shape of the returned list, its keyword tokens being those of source
InterpretedFrom(source) ==
    /\ Len(actions) <= 2
    /\ \A i \in DOMAIN actions : actions[i].scope = NoScope
    /\ KeywordActions \cup RegexActions = DOMAIN actions
    /\ KeywordActions \subseteq { 1 }
    /\ Cardinality(RegexActions) <= 1
    /\ (KeywordActions # { }) = (source # << >>)
    /\ KeywordActions # { } => FirstOccurrences(actions[1].tokens, source)
    /\ (RegexActions # { }) = MentionsTrigger(instructions)

\* C30 as stated: at most two unscoped actions; the keyword action's tokens
\* are the quoted substrings when the instruction holds a quoted substring,
\* and the fragments behind the word redact only when it holds none; the
\* regex action is present iff a trigger word is mentioned.
C30_QuotedElseFragments ==
    pc = "interpret_done" =>
        InterpretedFrom(IF HasQuotedSubstring(instructions)
                        THEN QuotedKeywords(instructions)
                        ELSE FragmentKeywords(instructions))

\* C30 as amended: the fragments are used whenever no quoted substring gives
\* a keyword, that is, when every quoted substring is empty, blank or holds a
\* backslash, as well as when there is none.
C30_UsableQuotedElseFragments ==
    pc = "interpret_done" =>
        InterpretedFrom(IF QuotedKeywords(instructions) # << >>
                        THEN QuotedKeywords(instructions)
                        ELSE FragmentKeywords(instructions))

\* C30 witness: the instruction holds a quoted substring that gives no
\* keyword, and the keyword action was built from the fragments behind redact.
C30_Witness ==
    /\ pc = "interpret_done"
    /\ HasQuotedSubstring(instructions)
    /\ QuotedKeywords(instructions) = << >>
    /\ KeywordActions = { 1 }
    /\ actions[1].tokens = FragmentKeywords(instructions)

-----------------------------------------------------------------------------
(* C21: no signal, no action, no result *)

\* one of the words revenue, figure, amount, sales occurs, in any case
HasTriggerWord(instr) ==
    \E i \in DOMAIN instr, word \in TriggerWords :
        /\ i + Len(word) - 1 <= Len(instr)
        /\ Lower(SubSeq(instr, i, i + Len(word) - 1)) = word

\* the instruction is blank, or holds no quoted substring, no fragment behind
\* the word redact and no trigger word
NoSignal(instr) ==
    \/ Strip(instr) = << >>
    \/ /\ ~ HasQuotedSubstring(instr)
       /\ FindRedactChunks(Lower(instr)) = << >>
       /\ ~ HasTriggerWord(instr)

\* C21: interpret_instructions returns for every instruction string, with an
\* empty action list when the instruction is blank or holds no quoted substring,
\* no fragment behind the word redact and no trigger word; and
\* generate_rule_actions returns no result for an empty action list, whatever
\* the deck.
C21_NoSignalPassesThrough ==
    /\ pc \in { "interpret_call", "interpret_done", "start", "done" }
    /\ (pc # "interpret_call" /\ NoSignal(instructions)) => actions = << >>
    /\ pc = "done" => actions = << >> /\ results = << >>

\* C21 witness: a non-blank instruction without any signal gave the empty list,
\* and generate_rule_actions returned no result for a deck with paragraphs.
C21_Witness ==
    /\ pc = "done"
    /\ Strip(instructions) # << >>
    /\ NoSignal(instructions)
    /\ actions = << >>
    /\ deck # << >>
    /\ results = << >>

-----------------------------------------------------------------------------
(* C22: a failed classification falls back and the request completes *)

\* the except clause of process_redaction has run
FellBack == meta.source = "fallback_heuristic"

\* process_redaction raised before it reached insert_rule
RaisedBeforePersisting == pc = "process_raised" /\ title = << >>

\* C22: whenever the classification fails (the client is unavailable, the call
\* raises, the output is no JSON or cannot be converted), the actions are those
\* of interpret_instructions, the response meta names the fallback source, and
\* process_redaction returns unless a persistence call fails.
C22_FallbackCompletes ==
    FellBack =>
        /\ actions = InterpretInstructions(instructions)
        /\ pc = "returned" => response.meta.source = "fallback_heuristic"
        /\ ~ RaisedBeforePersisting

-----------------------------------------------------------------------------
(* C23: a rewrite that cites a paragraph changes that paragraph only *)

\* the classifier answered with one rewrite and nothing else, and it was used
OneRewriteOnly ==
    /\ meta.source = "llm_entity_extraction"
    /\ llm_result.entity_redactions = << >>
    /\ llm_result.patterns = << >>
    /\ Len(llm_result.paragraph_rewrites) = 1

\* the reference of the paragraph the rewrite cites
Cited ==
    CHOOSE entry \in Range(paragraph_lookup) :
        entry.paragraph_id = llm_result.paragraph_rewrites[1].paragraph_id.id

\* the visited paragraph is the one the reference locates: the slide at position
\* slide_no, the element with the key, the paragraph at paragraph_index
Locates(entry, v) ==
    /\ v.si = entry.slide_no
    /\ deck[v.si].elements[v.ei].key = entry.element_key
    /\ v.pi = entry.paragraph_index + 1

IsCited(v) == Locates(Cited, v)

\* C23: the action built for a rewrite that cites an indexed paragraph P
\* changes no paragraph other than P when generate_rule_actions runs it on the
\* same deck, neither on another slide nor elsewhere on P's slide.
C23_RewriteChangesOnlyCited ==
    OneRewriteOnly =>
        \A k \in DOMAIN visited : visited[k].emitted => IsCited(visited[k])

-----------------------------------------------------------------------------
(* C27: the reference and the walker number the slides alike *)

\* C27: the slide_no of every paragraph reference is the slide number
\* generate_rule_actions uses for the paragraph's slide, so the action built
\* from a rewrite that cites the paragraph is in scope for it and gives a
\* result for it whenever the rewritten text differs from the paragraph's text.
C27_SlideNumbersAgree ==
    /\ \A k \in DOMAIN visited, entry \in Range(paragraph_lookup) :
          Locates(entry, visited[k]) => visited[k].slide_no = entry.slide_no
    /\ ( /\ OneRewriteOnly
         /\ pc = "done"
         /\ llm_result.paragraph_rewrites[1].rewritten_text.s # Cited.text )
       => \E k \in DOMAIN visited : visited[k].emitted /\ IsCited(visited[k])

-----------------------------------------------------------------------------
(* C25: the rule row first, then the rows of its results *)

\* the positions in the request log of the posts to a table
PostsTo(table) == { j \in DOMAIN persisted : persisted[j].table = table }

\* C25: insert_rule_actions is invoked at most once, only after insert_rule
\* returned a rule id and only when there is a result; every row handed to it
\* carries that rule id and the request's deck id; and the returned actionCount
\* is the number of results, 0 when there are none, the rule row being inserted
\* all the same.
C25_RuleBeforeItsRows ==
    /\ Cardinality(PostsTo("rule_actions")) <= 1
    /\ \A j \in PostsTo("rule_actions") :
          /\ j = 2
          /\ persisted[1].table = "rules"
          /\ persisted[1].answer \in RuleIds
          /\ rule_id = persisted[1].answer
          /\ results # << >>
          /\ Len(persisted[j].rows) = Len(results)
          /\ \A n \in DOMAIN persisted[j].rows :
                /\ persisted[j].rows[n].rule_id = persisted[1].answer
                /\ persisted[j].rows[n].deck_id = deck_id
    /\ pc = "returned" =>
          /\ response.actionCount = Len(results)
          /\ response.ruleId = persisted[1].answer
          /\ PostsTo("rules") = { 1 }
          /\ persisted[1].answer \in RuleIds
          /\ (PostsTo("rule_actions") = { }) = (results = << >>)

\* C25 witness: a request returned after the rule and then two result rows
\* were inserted.
C25_Witness ==
    /\ pc = "returned"
    /\ Len(results) = 2
    /\ Len(persisted) = 2
    /\ persisted[2].table = "rule_actions"
    /\ persisted[2].answer = "ok"
    /\ response.actionCount = 2

====
